---- MODULE Spec2Model ----
(***************************************************************************)
(* State-machine model of the GraphQL schema diff pipeline of              *)
(* feature_monitor (src/src/feature_monitor/graphql_diff.py) and of the    *)
(* file helper it saves snapshots with (src/src/feature_monitor/utils.py). *)
(*                                                                         *)
(* A Python str is modelled as a sequence of one-character strings, so     *)
(* that splitting, regular-expression matching, lower-casing, substring    *)
(* search, formatting and lexicographic comparison are computed and not    *)
(* assumed.                                                                *)
(***************************************************************************)
EXTENDS Integers, Sequences, FiniteSets, TLC

(***************************************************************************)
(* Characters and strings                                                  *)
(***************************************************************************)
UpperSeq == <<"A", "B", "C", "D", "E", "F", "G", "H", "I", "J", "K", "L", "M", "N", "O", "P", "Q", "R", "S", "T", "U", "V", "W", "X", "Y", "Z">>

LowerSeq == <<"a", "b", "c", "d", "e", "f", "g", "h", "i", "j", "k", "l", "m", "n", "o", "p", "q", "r", "s", "t", "u", "v", "w", "x", "y", "z">>

DigitSeq == <<"0", "1", "2", "3", "4", "5", "6", "7", "8", "9">>

Range(s) == {s[i] : i \in 1..Len(s)}

Upper == Range(UpperSeq)

Lower == Range(LowerSeq)

Digit == Range(DigitSeq)

\* \w of Python's re, restricted to ASCII
WordChar == Upper \cup Lower \cup Digit \cup {"_"}

\* \s of Python's re, as it can occur inside one line of a split text
Space == {" ", "\t"}

\* The characters of the model in code-point order (str comparison, hashing)
CharOrder == <<"\t", "\n", " ", "#", "(", ")", ",", "-", ".">> \o DigitSeq \o <<":">> \o UpperSeq \o <<"[", "]", "_">> \o LowerSeq \o <<"{", "}">>

Code == [c \in Range(CharOrder) |-> CHOOSE i \in 1..Len(CharOrder) : CharOrder[i] = c]

ToLower == [c \in Range(CharOrder) |-> IF c \in Upper THEN LowerSeq[CHOOSE i \in 1..Len(UpperSeq) : UpperSeq[i] = c] ELSE c]

\* str.lower()
LowerStr(s) == [i \in 1..Len(s) |-> ToLower[s[i]]]

\* s[i:].startswith(lit), 1-based
StartsWithAt(s, i, lit) ==
    /\ i + Len(lit) - 1 <= Len(s)
    /\ \A k \in 1..Len(lit) : s[i + k - 1] = lit[k]

\* sub in s
Contains(s, sub) == \E i \in 1..(Len(s) - Len(sub) + 1) : StartsWithAt(s, i, sub)

\* s.startswith(p), s.endswith(p)
StartsWith(s, p) == StartsWithAt(s, 1, p)

EndsWith(s, p) == Len(p) <= Len(s) /\ StartsWithAt(s, Len(s) - Len(p) + 1, p)

\* s < t in Python's str ordering (code points, then length)
StrLess(s, t) ==
    \E k \in 1..(Len(t)) :
        /\ \A j \in 1..(k - 1) : j <= Len(s) /\ s[j] = t[j]
        /\ \/ k = Len(s) + 1
           \/ k <= Len(s) /\ Code[s[k]] < Code[t[k]]

\* the first index >= i of line that holds no character of class, Len+1 if none
RECURSIVE SkipClass(_, _, _)
SkipClass(line, i, class) ==
    IF i <= Len(line) /\ line[i] \in class THEN SkipClass(line, i + 1, class) ELSE i

\* str.split('\n'): the pieces between the newlines, at least one piece
SplitLines(text) ==
    LET nl == {i \in 1..Len(text) : text[i] = "\n"}
        \* the position of the k-th newline; 0 and Len+1 bracket the text
        cut(k) == IF k = 0 THEN 0
                  ELSE IF k > Cardinality(nl) THEN Len(text) + 1
                  ELSE CHOOSE i \in nl : Cardinality({j \in nl : j <= i}) = k
    IN  [k \in 1..(Cardinality(nl) + 1) |-> SubSeq(text, cut(k - 1) + 1, cut(k) - 1)]

\* '\n'.join(lines)
RECURSIVE JoinLines(_)
JoinLines(lines) ==
    IF Len(lines) = 0 THEN <<>>
    ELSE IF Len(lines) = 1 THEN lines[1]
    ELSE lines[1] \o <<"\n">> \o JoinLines(Tail(lines))

KwType == <<"t", "y", "p", "e">>

KwInterface == <<"i", "n", "t", "e", "r", "f", "a", "c", "e">>

KwInput == <<"i", "n", "p", "u", "t">>

KwEnum == <<"e", "n", "u", "m">>

(***************************************************************************)
(* The line-oriented schema parser                                         *)
(***************************************************************************)
TypeKeywords == <<KwType, KwInterface, KwInput, KwEnum>>

\* faulty variant of MatchTypeDecl: the name may begin with a lower-case letter
MatchTypeDeclAnyCase(line) ==
    LET i == SkipClass(line, 1, Space)
        kws == {k \in 1..Len(TypeKeywords) : StartsWithAt(line, i, TypeKeywords[k])}
    IN  IF kws = {} THEN <<>>
        ELSE LET k == CHOOSE x \in kws : \A y \in kws : x <= y
                 a == i + Len(TypeKeywords[k])
                 b == SkipClass(line, a, Space)
                 e == SkipClass(line, b, WordChar)
             IN  IF b > a /\ b <= Len(line) /\ line[b] \in Upper \cup Lower /\ e - b >= 2
                 THEN SubSeq(line, b, e - 1)
                 ELSE <<>>

\* re.match(r'^\s*(type|interface|input|enum)\s+([A-Z]\w+)', line): group 2, or
\* <<>> when the line does not match
MatchTypeDecl(line) ==
    LET i == SkipClass(line, 1, Space)
        kws == {k \in 1..Len(TypeKeywords) : StartsWithAt(line, i, TypeKeywords[k])}
    IN  IF kws = {} THEN <<>>
        ELSE LET k == CHOOSE x \in kws : \A y \in kws : x <= y
                 a == i + Len(TypeKeywords[k])
                 b == SkipClass(line, a, Space)
                 e == SkipClass(line, b, WordChar)
             IN  IF b > a /\ b <= Len(line) /\ line[b] \in Upper /\ e - b >= 2
                 THEN SubSeq(line, b, e - 1)
                 ELSE <<>>

\* re.match(rf'^\s*type\s+{type_name}\s*{{', line), for a type_name of word characters
MatchTypeOpen(line, type_name) ==
    LET i == SkipClass(line, 1, Space)
        a == i + Len(KwType)
        b == SkipClass(line, a, Space)
        c == SkipClass(line, b + Len(type_name), Space)
    IN  /\ StartsWithAt(line, i, KwType)
        /\ b > a
        /\ StartsWithAt(line, b, type_name)
        /\ c <= Len(line)
        /\ line[c] = "{"

\* faulty variant of MatchField: the leading whitespace is optional
MatchFieldUnindented(line) ==
    LET i == SkipClass(line, 1, Space)
        e == SkipClass(line, i, WordChar)
        c == SkipClass(line, e, Space)
    IN  IF e > i /\ c <= Len(line) /\ line[c] \in {":", "("}
        THEN SubSeq(line, i, e - 1)
        ELSE <<>>

\* re.match(r'^\s+(\w+)\s*[:(]', line): group 1, or <<>> when the line does not match
MatchField(line) ==
    LET i == SkipClass(line, 1, Space)
        e == SkipClass(line, i, WordChar)
        c == SkipClass(line, e, Space)
    IN  IF i > 1 /\ e > i /\ c <= Len(line) /\ line[c] \in {":", "("}
        THEN SubSeq(line, i, e - 1)
        ELSE <<>>

parse_schema_types(schema) ==
    LET lines == SplitLines(schema)
    IN  {MatchTypeDecl(lines[k]) : k \in 1..Len(lines)} \ {<<>>}

\* faulty variant of FieldScan: only a line holding nothing but the closing brace
\* ends the capture
RECURSIVE FieldScanStandalone(_, _, _, _)
FieldScanStandalone(lines, k, type_name, in_type) ==
    IF k > Len(lines) THEN {}
    ELSE IF MatchTypeOpen(lines[k], type_name)
         THEN FieldScanStandalone(lines, k + 1, type_name, TRUE)
    ELSE IF in_type /\ "}" \in Range(lines[k]) /\ Range(lines[k]) \subseteq Space \cup {"}"} THEN {}
    ELSE (IF in_type /\ MatchField(lines[k]) # <<>> THEN {MatchField(lines[k])} ELSE {})
         \cup FieldScanStandalone(lines, k + 1, type_name, in_type)

\* the loop of parse_schema_fields from line k on, in_type as the loop left it
RECURSIVE FieldScan(_, _, _, _)
FieldScan(lines, k, type_name, in_type) ==
    IF k > Len(lines) THEN {}
    ELSE IF MatchTypeOpen(lines[k], type_name) THEN FieldScan(lines, k + 1, type_name, TRUE)
    ELSE IF in_type /\ "}" \in Range(lines[k]) THEN {}
    ELSE (IF in_type /\ MatchField(lines[k]) # <<>> THEN {MatchField(lines[k])} ELSE {})
         \cup FieldScan(lines, k + 1, type_name, in_type)

parse_schema_fields(schema, type_name) == FieldScan(SplitLines(schema), 1, type_name, FALSE)

(***************************************************************************)
(* The clock: a calendar date and an instant of that day                   *)
(***************************************************************************)
Pad2(n) == <<DigitSeq[((n \div 10) % 10) + 1], DigitSeq[(n % 10) + 1]>>

Pad4(n) == <<DigitSeq[((n \div 1000) % 10) + 1], DigitSeq[((n \div 100) % 10) + 1]>> \o Pad2(n)

Unpadded(n) == IF n < 10 THEN <<DigitSeq[n + 1]>> ELSE Pad2(n)

\* faulty variant of FormatDashed: month and day without the leading zero
FormatDashedUnpadded(now) == Pad4(now.y) \o <<"-">> \o Unpadded(now.m) \o <<"-">> \o Unpadded(now.d)

\* datetime.now().strftime("%Y-%m-%d")
FormatDashed(now) == Pad4(now.y) \o <<"-">> \o Pad2(now.m) \o <<"-">> \o Pad2(now.d)

\* datetime.now().strftime('%Y%m%d')
FormatCompact(now) == Pad4(now.y) \o Pad2(now.m) \o Pad2(now.d)

\* datetime.now().isoformat(): the date, 'T', and the time of day (here the instant)
IsoFormat(now) == FormatDashed(now) \o <<"T">> \o Pad2(now.t)

(***************************************************************************)
(* Feature records and detect_changes                                      *)
(***************************************************************************)
SigMutation == <<"m", "u", "t", "a", "t", "i", "o", "n">>

SigQuery == <<"q", "u", "e", "r", "y">>

SigInput == <<"i", "n", "p", "u", "t">>

SigPayload == <<"p", "a", "y", "l", "o", "a", "d">>

NameMutation == <<"M", "u", "t", "a", "t", "i", "o", "n">>

NameQuery == <<"Q", "u", "e", "r", "y">>

NameRepository == <<"R", "e", "p", "o", "s", "i", "t", "o", "r", "y">>

NamePullRequest == <<"P", "u", "l", "l", "R", "e", "q", "u", "e", "s", "t">>

NameIssue == <<"I", "s", "s", "u", "e">>

IdPrefix == <<"g", "r", "a", "p", "h", "q", "l", "_">>

TypeTitlePrefix == <<"N", "e", "w", " ", "G", "r", "a", "p", "h", "Q", "L", " ", "T", "y", "p", "e", ":", " ">>

FieldTitlePrefix == <<"N", "e", "w", " ", "G", "r", "a", "p", "h", "Q", "L", " ", "F", "i", "e", "l", "d", ":", " ">>

TypeDescHead == <<"A", " ", "n", "e", "w", " ", "G", "r", "a", "p", "h", "Q", "L", " ", "t", "y", "p", "e", " ", "'">>

TypeDescTail == <<"'", " ", "h", "a", "s", " ", "b", "e", "e", "n", " ", "a", "d", "d", "e", "d", " ", "t", "o", " ", "t", "h", "e", " ", "G", "i", "t", "H", "u", "b", " ", "A", "P", "I", " ", "s", "c", "h", "e", "m", "a", ".">>

FieldDescHead == <<"A", " ", "n", "e", "w", " ", "f", "i", "e", "l", "d", " ", "'">>

FieldDescMid == <<"'", " ", "h", "a", "s", " ", "b", "e", "e", "n", " ", "a", "d", "d", "e", "d", " ", "t", "o", " ", "t", "h", "e", " ", "'">>

FieldDescTail == <<"'", " ", "t", "y", "p", "e", " ", "i", "n", " ", "t", "h", "e", " ", "G", "i", "t", "H", "u", "b", " ", "G", "r", "a", "p", "h", "Q", "L", " ", "A", "P", "I", ".">>

SourceType == <<"g", "r", "a", "p", "h", "q", "l", "_", "s", "c", "h", "e", "m", "a", "_", "d", "i", "f", "f">>

SourceUrl == <<"h", "t", "t", "p", "s", ":", "/", "/", "d", "o", "c", "s", ".", "g", "i", "t", "h", "u", "b", ".", "c", "o", "m", "/", "g", "r", "a", "p", "h", "q", "l">>

ProductArea == <<"A", "P", "I">>

TagGraphql == <<"g", "r", "a", "p", "h", "q", "l">>

TagApi == <<"a", "p", "i">>

TagSchemaChange == <<"s", "c", "h", "e", "m", "a", "-", "c", "h", "a", "n", "g", "e">>

TagFieldAddition == <<"f", "i", "e", "l", "d", "-", "a", "d", "d", "i", "t", "i", "o", "n">>

SignificantKeywords == <<SigMutation, SigQuery, SigInput, SigPayload>>

\* faulty variant of important_types: Query is listed twice
important_typesRepeated ==
    <<NameMutation, NameQuery, NameRepository, NamePullRequest, NameIssue, NameQuery>>

important_types == <<NameMutation, NameQuery, NameRepository, NamePullRequest, NameIssue>>

\* "if is_significant or len(added_types) <= 10": the noise limit
NoiseLimit == 10

\* "list(added_fields)[:5]": the cap on new-field records per type
FieldCap == 5

\* hash(s) of a str under the process's hash seed
RECURSIVE StrHash(_, _, _, _)
StrHash(s, i, h, seed) ==
    IF i > Len(s) THEN h
    ELSE StrHash(s, i + 1, ((h * 3 + Code[s[i]]) * (seed + 2)) % 31, seed)

\* x comes before y when a set holding both is iterated
IterBefore(x, y, seed) ==
    LET hx == StrHash(x, 1, seed, seed)
        hy == StrHash(y, 1, seed, seed)
    IN  hx < hy \/ (hx = hy /\ (x = y \/ StrLess(x, y)))

\* list(S) / "for x in S" of a set of str: an order fixed by the hash seed
RECURSIVE SetOrder(_, _)
SetOrder(S, seed) ==
    IF S = {} THEN <<>>
    ELSE LET x == CHOOSE e \in S : \A o \in S : IterBefore(e, o, seed)
         IN  <<x>> \o SetOrder(S \ {x}, seed)

\* s[:n]
Take(s, n) == SubSeq(s, 1, IF Len(s) < n THEN Len(s) ELSE n)

is_significant(type_name) ==
    \E k \in 1..Len(SignificantKeywords) : Contains(LowerStr(type_name), SignificantKeywords[k])

\* faulty variant of TypeFeature: the id is built from the time of day as well
TypeFeatureTimedId(type_name, now) ==
    [id |-> IdPrefix \o type_name \o <<"_">> \o FormatCompact(now) \o Pad2(now.t),
     title |-> TypeTitlePrefix \o type_name,
     description |-> TypeDescHead \o type_name \o TypeDescTail,
     source_type |-> SourceType,
     source_url |-> SourceUrl,
     product_area |-> ProductArea,
     tags |-> <<TagGraphql, TagApi, TagSchemaChange, LowerStr(type_name)>>,
     date_discovered |-> IsoFormat(now)]

\* faulty variant of TypeFeature: the last tag is the name as declared
TypeFeatureRawTag(type_name, now) ==
    [id |-> IdPrefix \o type_name \o <<"_">> \o FormatCompact(now),
     title |-> TypeTitlePrefix \o type_name,
     description |-> TypeDescHead \o type_name \o TypeDescTail,
     source_type |-> SourceType,
     source_url |-> SourceUrl,
     product_area |-> ProductArea,
     tags |-> <<TagGraphql, TagApi, TagSchemaChange, type_name>>,
     date_discovered |-> IsoFormat(now)]

\* Feature(...) of the "new types" loop
TypeFeature(type_name, now) ==
    [id |-> IdPrefix \o type_name \o <<"_">> \o FormatCompact(now),
     title |-> TypeTitlePrefix \o type_name,
     description |-> TypeDescHead \o type_name \o TypeDescTail,
     source_type |-> SourceType,
     source_url |-> SourceUrl,
     product_area |-> ProductArea,
     tags |-> <<TagGraphql, TagApi, TagSchemaChange, LowerStr(type_name)>>,
     date_discovered |-> IsoFormat(now)]

\* Feature(...) of the "new fields" loop
FieldFeature(type_name, field_name, now) ==
    [id |-> IdPrefix \o type_name \o <<"_">> \o field_name \o <<"_">> \o FormatCompact(now),
     title |-> FieldTitlePrefix \o type_name \o <<".">> \o field_name,
     description |-> FieldDescHead \o field_name \o FieldDescMid \o type_name \o FieldDescTail,
     source_type |-> SourceType,
     source_url |-> SourceUrl,
     product_area |-> ProductArea,
     tags |-> <<TagGraphql, TagApi, TagFieldAddition, LowerStr(type_name)>>,
     date_discovered |-> IsoFormat(now)]

\* faulty variant of NewTypeFeatures: the noise limit is exclusive
RECURSIVE NewTypeFeaturesBelowLimit(_, _, _, _)
NewTypeFeaturesBelowLimit(order, k, count, now) ==
    IF k > Len(order) THEN <<>>
    ELSE (IF is_significant(order[k]) \/ count < NoiseLimit
          THEN <<TypeFeature(order[k], now)>>
          ELSE <<>>) \o NewTypeFeaturesBelowLimit(order, k + 1, count, now)

\* the features appended by the loop over added_types, from position k of its order
RECURSIVE NewTypeFeatures(_, _, _, _)
NewTypeFeatures(order, k, count, now) ==
    IF k > Len(order) THEN <<>>
    ELSE (IF is_significant(order[k]) \/ count <= NoiseLimit
          THEN <<TypeFeature(order[k], now)>>
          ELSE <<>>) \o NewTypeFeatures(order, k + 1, count, now)

\* faulty variant of NewFieldFeatures: every added field is reported
NewFieldFeaturesUncapped(old_schema, new_schema, old_types, new_types, type_name, now, seed) ==
    IF type_name \in old_types /\ type_name \in new_types
    THEN LET added_fields == parse_schema_fields(new_schema, type_name)
                              \ parse_schema_fields(old_schema, type_name)
             chosen == SetOrder(added_fields, seed)
         IN  [i \in 1..Len(chosen) |-> FieldFeature(type_name, chosen[i], now)]
    ELSE <<>>

\* faulty variant of NewFieldFeatures: the type need not be declared in the old schema
NewFieldFeaturesOfNewTypes(old_schema, new_schema, old_types, new_types, type_name, now, seed) ==
    IF type_name \in new_types
    THEN LET added_fields == parse_schema_fields(new_schema, type_name)
                              \ parse_schema_fields(old_schema, type_name)
             chosen == Take(SetOrder(added_fields, seed), FieldCap)
         IN  [i \in 1..Len(chosen) |-> FieldFeature(type_name, chosen[i], now)]
    ELSE <<>>

\* faulty variant of NewFieldFeatures: the set difference is taken the wrong way round
NewFieldFeaturesReversed(old_schema, new_schema, old_types, new_types, type_name, now, seed) ==
    IF type_name \in old_types /\ type_name \in new_types
    THEN LET added_fields == parse_schema_fields(old_schema, type_name)
                              \ parse_schema_fields(new_schema, type_name)
             chosen == Take(SetOrder(added_fields, seed), FieldCap)
         IN  [i \in 1..Len(chosen) |-> FieldFeature(type_name, chosen[i], now)]
    ELSE <<>>

\* the features appended for one name of important_types
NewFieldFeatures(old_schema, new_schema, old_types, new_types, type_name, now, seed) ==
    IF type_name \in old_types /\ type_name \in new_types
    THEN LET old_fields == parse_schema_fields(old_schema, type_name)
             new_fields == parse_schema_fields(new_schema, type_name)
             added_fields == new_fields \ old_fields
             chosen == Take(SetOrder(added_fields, seed), FieldCap)
         IN  [i \in 1..Len(chosen) |-> FieldFeature(type_name, chosen[i], now)]
    ELSE <<>>

RECURSIVE ImportantLoop(_, _, _, _, _, _, _)
ImportantLoop(old_schema, new_schema, old_types, new_types, k, now, seed) ==
    IF k > Len(important_types) THEN <<>>
    ELSE NewFieldFeatures(old_schema, new_schema, old_types, new_types, important_types[k], now, seed)
         \o ImportantLoop(old_schema, new_schema, old_types, new_types, k + 1, now, seed)

\* detect_changes(old_schema, new_schema), run at clock reading now in a process
\* whose set iteration order is fixed by seed
detect_changes(old_schema, new_schema, now, seed) ==
    LET old_types == parse_schema_types(old_schema)
        new_types == parse_schema_types(new_schema)
        added_types == new_types \ old_types
    IN  NewTypeFeatures(SetOrder(added_types, seed), 1, Cardinality(added_types), now)
        \o ImportantLoop(old_schema, new_schema, old_types, new_types, 1, now, seed)

(***************************************************************************)
(* The snapshot directory data/graphql                                     *)
(***************************************************************************)
SnapshotPrefix == <<"s", "c", "h", "e", "m", "a", "-">>

SnapshotSuffix == <<".", "g", "r", "a", "p", "h", "q", "l">>

TmpSuffix == <<".", "t", "m", "p">>

DetectedChangesName == <<"d", "e", "t", "e", "c", "t", "e", "d", "_", "c", "h", "a", "n", "g", "e", "s", ".", "j", "s", "o", "n">>

\* f"schema-{today}.graphql" of save_schema_snapshot (the name inside data_dir)
SnapshotName(now) == SnapshotPrefix \o FormatDashed(now) \o SnapshotSuffix

\* faulty variant of TempName: the content is written to the target itself
TempNameInPlace(filepath) == filepath

\* f"{filepath}.tmp" of safe_write_file
TempName(filepath) == filepath \o TmpSuffix

\* sorted(names, reverse=True)
RECURSIVE SortedReverse(_)
SortedReverse(names) ==
    IF names = {} THEN <<>>
    ELSE LET top == CHOOSE n \in names : \A o \in names : o = n \/ StrLess(o, n)
         IN  <<top>> \o SortedReverse(names \ {top})

\* the list "snapshots" of get_latest_snapshot for a directory listing
SnapshotList(listing) ==
    SortedReverse({f \in listing : StartsWith(f, SnapshotPrefix) /\ EndsWith(f, SnapshotSuffix)})

(***************************************************************************)
(* Inputs: schema texts                                                    *)
(***************************************************************************)
\* the largest number of filler type declarations in a text
MaxFill == 12

\* the largest number of fields in a generated type body
MaxFields == 7

\* hash seeds 0..MaxSeed
MaxSeed == 2

\* instants 0..MaxInstant within a day
MaxInstant == 1

\* main() is started at most MaxRuns times
MaxRuns == 3

Seeds == 0..MaxSeed

NameAInput == <<"A", "I", "n", "p", "u", "t">>

NameXPayload == <<"X", "P", "a", "y", "l", "o", "a", "d">>

NameWidget == <<"W", "i", "d", "g", "e", "t">>

\* the i-th filler name: Ta, Tb, ...
FillName(i) == <<"T", LowerSeq[i]>>

FillLine(i) == TypeKeywords[((i - 1) % 4) + 1] \o <<" ">> \o FillName(i)

FieldName(i) == <<"f", DigitSeq[i + 1]>>

FieldLine(i) ==
    IF i % 2 = 1 THEN <<" ", " ">> \o FieldName(i) \o <<":", " ", "X">>
    ELSE <<" ", " ">> \o FieldName(i) \o <<"(", "a", ":", " ", "X", ")", ":", " ", "X">>

\* a type body with fields f1..fk, k = -1 for no declaration at all
Block(name, k) ==
    IF k < 0 THEN <<>>
    ELSE <<KwType \o <<" ">> \o name \o <<" ", "{">>>> \o [i \in 1..k |-> FieldLine(i)] \o <<<<"}">>>>

SigLines(sig) ==
    (IF NameAInput \in sig THEN <<KwInput \o <<" ">> \o NameAInput>> ELSE <<>>)
    \o (IF NameXPayload \in sig THEN <<KwType \o <<" ">> \o NameXPayload>> ELSE <<>>)

Render(fill, sig, q, iss, wid) ==
    JoinLines([i \in 1..fill |-> FillLine(i)] \o SigLines(sig)
              \o Block(NameQuery, q) \o Block(NameIssue, iss) \o Block(NameWidget, wid))

\* texts that vary the declared types
TypeTexts ==
    {Render(n, s, -1, -1, -1) : n \in 0..MaxFill, s \in {{}, {NameAInput}, {NameAInput, NameXPayload}}}

\* texts that vary the fields of watched and unwatched types
FieldTexts ==
    {Render(0, {}, k, v[1], v[2]) : k \in -1..MaxFields, v \in {<<-1, 1>>, <<2, 2>>, <<MaxFields - 1, -1>>}}

\* the two schemas of a one-field addition to Query, written on one line each
InlineOld == <<"t", "y", "p", "e", " ", "Q", "u", "e", "r", "y", " ", "{", " ", "a", ":", " ", "S", "t", "r", "i", "n", "g", " ", "}">>

InlineNew == <<"t", "y", "p", "e", " ", "Q", "u", "e", "r", "y", " ", "{", " ", "a", ":", " ", "S", "t", "r", "i", "n", "g", " ", "b", ":", " ", "I", "n", "t", " ", "}">>

\* the same two schemas with every field on a line of its own
LinedOld == <<"t", "y", "p", "e", " ", "Q", "u", "e", "r", "y", " ", "{", "\n", " ", " ", "a", ":", " ", "S", "t", "r", "i", "n", "g", "\n", "}">>

LinedNew == <<"t", "y", "p", "e", " ", "Q", "u", "e", "r", "y", " ", "{", "\n", " ", " ", "a", ":", " ", "S", "t", "r", "i", "n", "g", "\n", " ", " ", "b", ":", " ", "I", "n", "t", "\n", "}">>

\* a watched type gains field f1 while a type named Query_f1 is added
JoinedOld == <<"t", "y", "p", "e", " ", "Q", "u", "e", "r", "y", " ", "{", "\n", "}">>

JoinedNew == <<"t", "y", "p", "e", " ", "Q", "u", "e", "r", "y", " ", "{", "\n", " ", " ", "f", "1", ":", " ", "X", "\n", "}", "\n", "t", "y", "p", "e", " ", "Q", "u", "e", "r", "y", "_", "f", "1", " ", "{", "\n", "}">>

ScenarioTexts == {InlineOld, InlineNew, LinedOld, LinedNew, JoinedOld, JoinedNew}

Texts == TypeTexts \cup FieldTexts \cup ScenarioTexts

\* what a fetch can return in the pipeline: an empty body and two schemas
FetchTexts ==
    {<<>>, Render(1, {}, 1, -1, 1), Render(2, {NameAInput}, 2, 0, -1)}

Dates == {[y |-> 2025 + v[1], m |-> v[2], d |-> v[3]] : v \in {<<0, 9, 10>>, <<0, 10, 9>>, <<1, 1, 1>>}}

DateLess(a, b) ==
    \/ a.y < b.y
    \/ a.y = b.y /\ a.m < b.m
    \/ a.y = b.y /\ a.m = b.m /\ a.d < b.d

DateOf(now) == [y |-> now.y, m |-> now.m, d |-> now.d]

At(date, t) == [y |-> date.y, m |-> date.m, d |-> date.d, t |-> t]

FirstDate == CHOOSE a \in Dates : \A b \in Dates : a = b \/ DateLess(a, b)

(***************************************************************************)
(* State                                                                   *)
(***************************************************************************)
VARIABLES
    clock,          \* what datetime.now() returns: [y, m, d, t]
    dir,            \* data/graphql: file name -> text, snapshots and their .tmp files
    changes_file,   \* data/graphql/detected_changes.json: <<>> absent, else <<list of dicts>>
    runs,           \* how many times main() was started
    pc,             \* per process: where main() is
    config,         \* per process: self.graphql_config
    current_schema, \* per process: current_schema of run(), <<"None">> or <<"str", text>>
    filepath,       \* per process: filepath of save_schema_snapshot
    prev_snapshot,  \* per process: prev_snapshot of run(), <<"None">> or <<"tuple", name, text>>
    features,       \* per process: what run() returned
    status,         \* per process: what main() returned, -1 before it returns
    log,            \* per process: the messages logged by run(), in order
    start_dir,      \* history, per process: dir as it was when main() started
    save_date,      \* history, per process: the calendar date save_schema_snapshot read
    saved,          \* history: date -> the text of the last save that succeeded for it
    call,           \* a direct call of detect_changes: arguments and result
    again,          \* a second call of detect_changes with the arguments of the first
    parsed,         \* a direct call of the parser: arguments and results
    checks,         \* content checks of one key: its state file and the results so far
    pipeline,       \* cmd_run_all: the step of its loop, the steps started and what they returned
    keyed,          \* the state files of several content checks and the results of run_all
    delta,          \* a direct call of generate_delta: arguments and result
    writer,         \* per writer: where its call of safe_write_file is
    fs              \* the files safe_write_file works on: names, inodes and their contents

vars == <<clock, dir, changes_file, runs, pc, config, current_schema, filepath,
          prev_snapshot, features, status, log, start_dir, save_date, saved, call, again,
          parsed, checks, fs, writer, delta, keyed, pipeline>>

\* the variables of the direct calls, which the pipeline leaves alone
sideVars == <<call, again, parsed, checks, fs, writer, delta, keyed, pipeline>>

procVars == <<pc, config, current_schema, filepath, prev_snapshot, features, status, log, start_dir, save_date>>

Procs == {1}

None == <<"None">>

NoCall == [old |-> <<>>, new |-> <<>>, now |-> At(FirstDate, 0), seed |-> 0, returned |-> FALSE, result |-> <<>>]

NoParse == [text |-> <<>>, type_name |-> NameQuery, types_returned |-> FALSE, types |-> {},
            fields_returned |-> FALSE, fields |-> {}]

\* no state file under data/content_checks, no check made
NoChecks == [state_file |-> None, results |-> <<>>, stored |-> <<>>]

\* no state file of any key, no check made
NoKeyed == [files |-> <<>>, results |-> <<>>, clean |-> TRUE]

\* cmd_run_all not yet in its loop
NoPipeline == [pc |-> "idle", graphql |-> FALSE, at |-> 0, started |-> <<>>, status |-> <<>>, raised |-> FALSE]

\* the processes that call safe_write_file for one and the same path
Writers == {1, 2}

\* an empty directory: no name, no inode
NoFiles == [names |-> <<>>, data |-> <<>>]

IdleWriter == [pc |-> "idle", text |-> <<>>, inode |-> 0, off |-> 0, chunk |-> 1, ok |-> FALSE,
               prev |-> None, calls |-> 0]

NoWriters == [p \in Writers |-> IdleWriter]

\* a FeatureLite-shaped object with nothing in it
NoObject == [is_dict |-> FALSE, id |-> None, title |-> None, source_type |-> None,
             product_area |-> None, source_url |-> None, date_discovered |-> None]

\* a dashboard file that does not exist
NoDashboard == [exists |-> FALSE, empty |-> TRUE, generated_at |-> None, features |-> <<>>, gaps |-> <<>>]

NoDelta == [old |-> NoDashboard, new |-> NoDashboard, top_n |-> 0, returned |-> FALSE,
            added |-> <<>>, removed |-> <<>>, changed |-> <<>>, result |-> <<>>]

Configs == {[enabled |-> e, has_url |-> u] : e \in BOOLEAN, u \in BOOLEAN}

LogStart == "Starting GraphQL schema diff process"

LogDisabled == "GraphQL schema source is disabled"

LogNoUrl == "No GraphQL schema URL configured"

LogFetchFailed == "Failed to fetch GraphQL schema"

LogAbort == "Could not fetch current schema, aborting"

LogSaved == "Saved schema snapshot"

LogSaveFailed == "Failed to save schema snapshot"

LogNotEnough == "Not enough snapshots for diff (need at least 2)"

LogReadFailed == "Failed to read snapshot"

LogNoPrevious == "No previous snapshot available, no diff to perform"

LogComparing == "Comparing with previous snapshot"

LogDetected == "Detected feature changes"

StartState ==
    /\ clock = At(FirstDate, 0)
    /\ dir = <<>>
    /\ changes_file = <<>>
    /\ runs = 0
    /\ pc = [p \in Procs |-> "idle"]
    /\ config = [p \in Procs |-> [enabled |-> FALSE, has_url |-> FALSE]]
    /\ current_schema = [p \in Procs |-> None]
    /\ filepath = [p \in Procs |-> <<>>]
    /\ prev_snapshot = [p \in Procs |-> None]
    /\ features = [p \in Procs |-> <<>>]
    /\ status = [p \in Procs |-> -1]
    /\ log = [p \in Procs |-> <<>>]
    /\ start_dir = [p \in Procs |-> <<>>]
    /\ save_date = [p \in Procs |-> FirstDate]
    /\ saved = <<>>

Init == StartState /\ call = NoCall /\ again = NoCall /\ parsed = NoParse /\ checks = NoChecks /\ pipeline = NoPipeline /\ keyed = NoKeyed /\ delta = NoDelta /\ writer = NoWriters /\ fs = NoFiles

(***************************************************************************)
(* Steps of main() and run()                                               *)
(***************************************************************************)
LogFetching == "Fetching GraphQL schema"

\* logged by safe_request before the request is sent
LogRequest == "Making GET request"

LogWriteOk == "Successfully wrote file"

LogWriteFailed == "Failed to write file"

Put(d, name, text) == [f \in DOMAIN d \cup {name} |-> IF f = name THEN text ELSE d[f]]

Remove(d, name) == [f \in DOMAIN d \ {name} |-> d[f]]

\* faulty variant of WriteFile: the file is opened for appending
WriteFileAppend(d, name, text) ==
    Put(d, name, (IF name \in DOMAIN d THEN d[name] ELSE <<>>) \o text)

\* with open(name, 'w', encoding='utf-8') as f: f.write(text)
WriteFile(d, name, text) == Put(d, name, text)

\* faulty variant of Replace: files that sort before the replaced one are pruned
ReplacePruning(d, src, dst) ==
    LET kept == {f \in DOMAIN d \ {src} : ~StrLess(f, dst)}
    IN  [f \in kept \cup {dst} |-> IF f = dst THEN d[src] ELSE d[f]]

\* os.replace(src, dst), src being a file of d
Replace(d, src, dst) == Put(Remove(d, src), dst, d[src])

\* os.listdir(self.data_dir)
Listing == DOMAIN dir \cup (IF changes_file = <<>> THEN {} ELSE {DetectedChangesName})

\* what a write of text that fails part-way can leave in the file: nothing, or a
\* proper prefix (two representatives: the empty file and the first half)
PartialWrites(text) == {SubSeq(text, 1, k) : k \in {0, Len(text) \div 2}}

\* faulty variant of Falsy: only a missing response counts, an empty text is saved
FalsyNoneOnly(schema) == schema = None

\* "if not current_schema"
Falsy(schema) == schema = None \/ schema[2] = <<>>

\* the level a message is logged at: logger.error or logger.info
LogLevel(msg) ==
    IF msg \in {LogNoUrl, LogFetchFailed, LogAbort, LogSaveFailed, LogReadFailed, LogWriteFailed}
    THEN "error"
    ELSE "info"

\* faulty variant of ShouldRequest: the URL is not looked at
ShouldRequestIfEnabled(cfg) == cfg.enabled

\* fetch_current_schema() gets as far as safe_request: enabled, and a URL is set
ShouldRequest(cfg) == cfg.enabled /\ cfg.has_url

\* main() up to differ.run(): a new interpreter, GraphQLSchemaDiff.__init__
MainStart(p) ==
    /\ pc[p] \in {"idle", "exited"}
    /\ runs < MaxRuns
    /\ runs' = runs + 1
    /\ current_schema' = [current_schema EXCEPT ![p] = None]
    /\ prev_snapshot' = [prev_snapshot EXCEPT ![p] = None]
    /\ filepath' = [filepath EXCEPT ![p] = <<>>]
    /\ features' = [features EXCEPT ![p] = <<>>]
    /\ log' = [log EXCEPT ![p] = <<>>]
    /\ start_dir' = [start_dir EXCEPT ![p] = dir]
    /\ \/ \E c \in Configs :
            /\ config' = [config EXCEPT ![p] = c]
            /\ pc' = [pc EXCEPT ![p] = "fetch"]
            /\ status' = [status EXCEPT ![p] = -1]
       \/ \* open(config_path), yaml.safe_load or os.makedirs raises: except -> return 1
          /\ config' = config
          /\ pc' = [pc EXCEPT ![p] = "exited"]
          /\ status' = [status EXCEPT ![p] = 1]
    /\ UNCHANGED <<clock, dir, changes_file, save_date, saved, sideVars>>

\* run(): fetch_current_schema() and "if not current_schema: return []"
Fetch(p) ==
    /\ pc[p] = "fetch"
    /\ \E r \in {None} \cup {<<"str", t>> : t \in FetchTexts} :
        LET asked == ShouldRequest(config[p])
            got == IF asked THEN r ELSE None
            said == <<LogStart>>
                    \o (IF ~config[p].enabled THEN <<LogDisabled>>
                        ELSE IF ~asked THEN <<LogNoUrl>>
                        ELSE <<LogFetching, LogRequest>>
                             \o (IF r = None THEN <<LogFetchFailed>> ELSE <<>>))
        IN  /\ asked \/ r = None
            /\ current_schema' = [current_schema EXCEPT ![p] = got]
            /\ IF Falsy(got)
               THEN /\ log' = [log EXCEPT ![p] = @ \o said \o <<LogAbort>>]
                    /\ pc' = [pc EXCEPT ![p] = "finish"]
               ELSE /\ log' = [log EXCEPT ![p] = @ \o said]
                    /\ pc' = [pc EXCEPT ![p] = "save"]
    /\ UNCHANGED <<clock, dir, changes_file, runs, config, filepath, prev_snapshot,
                   features, status, start_dir, save_date, saved, sideVars>>

\* save_schema_snapshot() into safe_write_file(): makedirs, open the .tmp file, write
SaveTmp(p) ==
    /\ pc[p] = "save"
    /\ LET path == SnapshotName(clock)
           text == current_schema[p][2]
       IN  /\ filepath' = [filepath EXCEPT ![p] = path]
           /\ save_date' = [save_date EXCEPT ![p] = DateOf(clock)]
           /\ \/ /\ dir' = WriteFile(dir, TempName(path), text)
                 /\ pc' = [pc EXCEPT ![p] = "replace"]
                 /\ log' = log
              \/ \* an exception: safe_write_file returns False, save_schema_snapshot
                 \* raises RuntimeError, run() logs it and returns []
                 /\ dir' \in {dir} \cup {WriteFile(dir, TempName(path), part) : part \in PartialWrites(text)}
                 /\ pc' = [pc EXCEPT ![p] = "finish"]
                 /\ log' = [log EXCEPT ![p] = @ \o <<LogWriteFailed, LogSaveFailed>>]
    /\ UNCHANGED <<clock, changes_file, runs, config, current_schema, prev_snapshot,
                   features, status, start_dir, saved, sideVars>>

\* safe_write_file(): os.replace(temp_filepath, filepath), and the return to run()
SaveReplace(p) ==
    /\ pc[p] = "replace"
    /\ LET tmp == TempName(filepath[p])
       IN  \/ /\ tmp \in DOMAIN dir
              /\ dir' = Replace(dir, tmp, filepath[p])
              /\ saved' = [d \in DOMAIN saved \cup {save_date[p]} |->
                            IF d = save_date[p] THEN current_schema[p][2] ELSE saved[d]]
              /\ pc' = [pc EXCEPT ![p] = "load"]
              /\ log' = [log EXCEPT ![p] = @ \o <<LogWriteOk, LogSaved>>]
           \/ /\ dir' = dir
              /\ saved' = saved
              /\ pc' = [pc EXCEPT ![p] = "finish"]
              /\ log' = [log EXCEPT ![p] = @ \o <<LogWriteFailed, LogSaveFailed>>]
    /\ UNCHANGED <<clock, changes_file, runs, config, current_schema, filepath,
                   prev_snapshot, features, status, start_dir, save_date, sideVars>>

\* faulty variant of get_latest_snapshot: one snapshot is enough, the newest is returned
get_latest_snapshot_newest(listing, files, read_ok) ==
    LET snapshots == SnapshotList(listing)
    IN  IF Len(snapshots) < 1 THEN None
        ELSE IF read_ok THEN <<"tuple", snapshots[1], files[snapshots[1]]>>
        ELSE None

\* get_latest_snapshot() for a listing and the files' contents; read_ok tells whether
\* open() and read() of the chosen file succeed
get_latest_snapshot(listing, files, read_ok) ==
    LET snapshots == SnapshotList(listing)
    IN  IF Len(snapshots) < 2 THEN None
        ELSE IF read_ok THEN <<"tuple", snapshots[2], files[snapshots[2]]>>
        ELSE None

\* run(): get_latest_snapshot() and "if not prev_snapshot: return []"
Load(p) ==
    /\ pc[p] = "load"
    /\ \E read_ok \in BOOLEAN :
        LET prev == get_latest_snapshot(Listing, dir, read_ok)
            said == IF Len(SnapshotList(Listing)) < 2 THEN <<LogNotEnough>>
                    ELSE IF read_ok THEN <<>> ELSE <<LogReadFailed>>
        IN  /\ prev_snapshot' = [prev_snapshot EXCEPT ![p] = prev]
            /\ IF prev = None
               THEN /\ log' = [log EXCEPT ![p] = @ \o said \o <<LogNoPrevious>>]
                    /\ pc' = [pc EXCEPT ![p] = "finish"]
               ELSE /\ log' = [log EXCEPT ![p] = @ \o <<LogComparing>>]
                    /\ pc' = [pc EXCEPT ![p] = "diff"]
    /\ UNCHANGED <<clock, dir, changes_file, runs, config, current_schema, filepath,
                   features, status, start_dir, save_date, saved, sideVars>>

\* run(): features = self.detect_changes(prev_schema, current_schema); return features.
\* The interpreter's hash seed shows here, where sets are iterated.
Diff(p) ==
    /\ pc[p] = "diff"
    /\ \E s \in Seeds :
        features' = [features EXCEPT ![p] =
                        detect_changes(prev_snapshot[p][3], current_schema[p][2], clock, s)]
    /\ log' = [log EXCEPT ![p] = @ \o <<LogDetected>>]
    /\ pc' = [pc EXCEPT ![p] = "finish"]
    /\ UNCHANGED <<clock, dir, changes_file, runs, config, current_schema, filepath,
                   prev_snapshot, status, start_dir, save_date, saved, sideVars>>

\* main() after differ.run() returned: print, write detected_changes.json, return
Finish(p) ==
    /\ pc[p] = "finish"
    /\ pc' = [pc EXCEPT ![p] = "exited"]
    /\ IF features[p] = <<>>
       THEN /\ status' = [status EXCEPT ![p] = 0]
            /\ changes_file' = changes_file
       ELSE \/ /\ changes_file' = <<features[p]>>
               /\ status' = [status EXCEPT ![p] = 0]
            \/ \* open() or json.dump raises: the file is untouched or cut short
               /\ changes_file' \in {changes_file, <<<<>>>>}
               /\ status' = [status EXCEPT ![p] = 1]
    /\ UNCHANGED <<clock, dir, runs, config, current_schema, filepath, prev_snapshot,
                   features, log, start_dir, save_date, saved, sideVars>>

\* time passes: a later instant of the day, or a later day
Tick ==
    /\ \/ /\ clock.t < MaxInstant
          /\ clock' = [clock EXCEPT !.t = @ + 1]
       \/ \E date \in Dates :
          /\ DateLess(DateOf(clock), date)
          /\ clock' = At(date, 0)
    /\ UNCHANGED <<dir, changes_file, runs, procVars, saved, sideVars>>

Next ==
    \/ \E p \in Procs : MainStart(p)
    \/ \E p \in Procs : Fetch(p)
    \/ \E p \in Procs : SaveTmp(p)
    \/ \E p \in Procs : SaveReplace(p)
    \/ \E p \in Procs : Load(p)
    \/ \E p \in Procs : Diff(p)
    \/ \E p \in Procs : Finish(p)
    \/ Tick

Spec == Init /\ [][Next]_vars

(***************************************************************************)
(* Direct calls of detect_changes on a wider range of schema texts         *)
(***************************************************************************)
CallClocks == {At(FirstDate, 0)}

InitDiff ==
    /\ StartState
    /\ \E o \in Texts, n \in Texts, s \in Seeds, c \in CallClocks :
        call = [old |-> o, new |-> n, now |-> c, seed |-> s, returned |-> FALSE, result |-> <<>>]
    /\ again = NoCall
    /\ parsed = NoParse
    /\ checks = NoChecks
    /\ pipeline = NoPipeline
    /\ keyed = NoKeyed
    /\ delta = NoDelta
    /\ writer = NoWriters
    /\ fs = NoFiles

CallDetectChanges ==
    /\ ~call.returned
    /\ call' = [call EXCEPT !.returned = TRUE,
                            !.result = detect_changes(call.old, call.new, call.now, call.seed)]
    /\ UNCHANGED <<clock, dir, changes_file, runs, procVars, saved, again, parsed, checks, fs, writer, delta, keyed, pipeline>>

NextDiff == CallDetectChanges

SpecDiff == InitDiff /\ [][NextDiff]_vars

(***************************************************************************)
(* Two calls of detect_changes with the same arguments                     *)
(***************************************************************************)
\* the second call is made at the instant of the first or later in the day
AgainClocks == {At(FirstDate, t) : t \in 0..MaxInstant}

InitTwice ==
    /\ StartState
    /\ \E o \in FieldTexts, n \in FieldTexts, s \in Seeds, c \in CallClocks :
        call = [old |-> o, new |-> n, now |-> c, seed |-> s, returned |-> FALSE, result |-> <<>>]
    /\ again = NoCall
    /\ parsed = NoParse
    /\ checks = NoChecks
    /\ pipeline = NoPipeline
    /\ keyed = NoKeyed
    /\ delta = NoDelta
    /\ writer = NoWriters
    /\ fs = NoFiles

\* the second call, in the same interpreter (the seed of the first call) or in
\* another one
CallAgain ==
    /\ call.returned
    /\ ~again.returned
    /\ \E s \in Seeds, c \in AgainClocks :
        again' = [old |-> call.old, new |-> call.new, now |-> c, seed |-> s, returned |-> TRUE,
                  result |-> detect_changes(call.old, call.new, c, s)]
    /\ UNCHANGED <<clock, dir, changes_file, runs, procVars, saved, call, parsed, checks, fs, writer, delta, keyed, pipeline>>

NextTwice == CallDetectChanges \/ CallAgain

SpecTwice == InitTwice /\ [][NextTwice]_vars

(***************************************************************************)
(* Direct calls of the parser on texts built from line shapes              *)
(***************************************************************************)
\* the largest number of lines in a text of type declarations
MaxTypeLines == 2

\* the largest number of pieces in a generated type body
MaxPieces == 3

\* lines that do and do not declare a type
TypeLineShapes ==
    <<<<"t", "y", "p", "e", " ", "A", "l", "p", "h", "a", " ", "{">>,
      <<" ", " ", "e", "n", "u", "m", " ", "C", "o", "l", "o", "r">>,
      <<"\t", "i", "n", "p", "u", "t", " ", "A", "I", "n", "p", "u", "t">>,
      <<"i", "n", "t", "e", "r", "f", "a", "c", "e", " ", "N", "o", "d", "e", "2", "_", "x">>,
      <<"#", " ", "t", "y", "p", "e", " ", "H", "i", "d", "d", "e", "n">>,
      <<" ", " ", "a", ":", " ", "B", "e", "t", "a">>,
      <<"t", "y", "p", "e", " ", "l", "o", "w", "e", "r">>,
      <<"t", "y", "p", "e", " ", "A">>,
      <<"t", "y", "p", "e", "G", "a", "m", "m", "a">>,
      <<"i", "n", "p", "u", "t", " ", "A", "b", "(">>,
      <<"t", "y", "p", "e", " ", " ", "Q", "u", "e", "r", "y", " ", " ", "{">>,
      <<"T", "y", "p", "e", " ", "E", "p", "s">>>>

\* pieces of a type body: field lines, a nested argument block, braces, a comment
BodyPieces ==
    <<<<<<" ", " ", "f", "1", ":", " ", "X">>>>,
    <<<<" ", " ", "f", "2", "(", "a", ":", " ", "X", ")", ":", " ", "X">>>>,
    <<<<"f", "3", ":", " ", "X">>>>,
    <<<<" ", " ", "f", "4", " ", ":", " ", "X">>>>,
    <<<<" ", " ", "f", "5", "(", "a", ":", " ", "{">>, <<" ", " ", " ", " ", "k", ":", " ", "1">>, <<" ", " ", "}", ")", ":", " ", "Y">>>>,
    <<<<"}">>>>,
    <<<<"t", "y", "p", "e", " ", "Q", "u", "e", "r", "y", " ", "{", " ", "a", ":", " ", "X", " ", "}">>>>,
    <<<<" ", " ", "#", " ", "f", "8", ":", " ", "X">>>>>>

\* what precedes the body: nothing, or a line that opens Query or QueryRoot
Headers ==
    <<<<>>,
    <<<<"t", "y", "p", "e", " ", "Q", "u", "e", "r", "y", " ", "{">>>>,
    <<<<"t", "y", "p", "e", " ", "Q", "u", "e", "r", "y", "R", "o", "o", "t", " ", "{">>>>,
    <<<<" ", " ", "t", "y", "p", "e", " ", " ", "Q", "u", "e", "r", "y", "{">>>>>>

\* what follows the body: the closing brace, then possibly the type Issue; or the
\* type Issue at once, for a body that was closed on its opening line
Trailers ==
    <<<<<<"}">>>>,
    <<<<"}">>, <<"t", "y", "p", "e", " ", "I", "s", "s", "u", "e", " ", "{">>, <<" ", " ", "g", "1", ":", " ", "X">>, <<"}">>>>,
    <<<<"t", "y", "p", "e", " ", "I", "s", "s", "u", "e", " ", "{">>, <<" ", " ", "g", "1", ":", " ", "X">>, <<"}">>>>>>

RECURSIVE Concat(_)
Concat(ss) == IF Len(ss) = 0 THEN <<>> ELSE Head(ss) \o Concat(Tail(ss))

Choices(n, k) == UNION {[1..m -> 1..k] : m \in 0..n}

DeclTexts ==
    {JoinLines([i \in DOMAIN c |-> TypeLineShapes[c[i]]]) : c \in Choices(MaxTypeLines, Len(TypeLineShapes))}

BodyTexts ==
    {JoinLines(Headers[h] \o Concat([i \in DOMAIN c |-> BodyPieces[c[i]]]) \o Trailers[t]) :
        h \in 1..Len(Headers), t \in 1..Len(Trailers), c \in Choices(MaxPieces, Len(BodyPieces))}

ParseTexts == DeclTexts \cup BodyTexts

ParseNames == {NameQuery, NameIssue}

InitParse ==
    /\ StartState
    /\ call = NoCall
    /\ again = NoCall
    /\ \E t \in ParseTexts, T \in ParseNames :
        parsed = [text |-> t, type_name |-> T, types_returned |-> FALSE, types |-> {},
                  fields_returned |-> FALSE, fields |-> {}]
    /\ checks = NoChecks
    /\ pipeline = NoPipeline
    /\ keyed = NoKeyed
    /\ delta = NoDelta
    /\ writer = NoWriters
    /\ fs = NoFiles

CallParseTypes ==
    /\ ~parsed.types_returned
    /\ parsed' = [parsed EXCEPT !.types_returned = TRUE,
                                !.types = parse_schema_types(parsed.text)]
    /\ UNCHANGED <<clock, dir, changes_file, runs, procVars, saved, call, again, checks, fs, writer, delta, keyed, pipeline>>

CallParseFields ==
    /\ ~parsed.fields_returned
    /\ parsed' = [parsed EXCEPT !.fields_returned = TRUE,
                                !.fields = parse_schema_fields(parsed.text, parsed.type_name)]
    /\ UNCHANGED <<clock, dir, changes_file, runs, procVars, saved, call, again, checks, fs, writer, delta, keyed, pipeline>>

NextParse == CallParseTypes \/ CallParseFields

SpecParse == InitParse /\ [][NextParse]_vars

(***************************************************************************)
(* Content checks of one key (src/src/feature_monitor/content_checks.py)   *)
(***************************************************************************)
\* _run_one is called at most MaxChecks times
MaxChecks == 3

\* \s of Python's re within a whole text
TextSpace == Space \cup {"\n"}

\* text.strip()
Strip(text) ==
    LET solid == {i \in 1..Len(text) : text[i] \notin TextSpace}
    IN  IF solid = {} THEN <<>>
        ELSE SubSeq(text, CHOOSE a \in solid : \A x \in solid : a <= x,
                          CHOOSE b \in solid : \A x \in solid : x <= b)

\* _WHITESPACE_RE.sub(" ", text) from position i on: every run of whitespace
\* becomes one space
RECURSIVE CollapseFrom(_, _)
CollapseFrom(text, i) ==
    IF i > Len(text) THEN <<>>
    ELSE IF text[i] \notin TextSpace THEN <<text[i]>> \o CollapseFrom(text, i + 1)
    ELSE IF i > 1 /\ text[i - 1] \in TextSpace THEN CollapseFrom(text, i + 1)
    ELSE <<" ">> \o CollapseFrom(text, i + 1)

_normalize_text_for_fingerprint(text) == CollapseFrom(Strip(text), 1)

\* hashlib.sha256(...).hexdigest(): the digest stands for the text it was made of
_sha256(text) == <<"sha256", text>>

\* the response bodies a check can receive
Bodies == {<<"a", " ", "b">>,
           <<"a", " ", " ", "b">>,
           <<" ", "a", "\n", "b", " ">>,
           <<"a", " ", "c">>,
           <<>>}

\* the "contains" setting of the check: absent, or a substring to expect
ContainsSettings == {None, <<"b">>}

\* "changed = (prev_fp is not None) and (prev_fp != fp)"
Changed(prev_fp, fp) == prev_fp # None /\ prev_fp # fp

\* ContentCheckResult(...) of the three failure returns and of the success return
FailedResult(status_code, fp, error) ==
    [ok |-> FALSE, status_code |-> status_code, changed |-> None, fingerprint |-> fp, error |-> error]

OkResult(changed, fp) ==
    [ok |-> TRUE, status_code |-> 200, changed |-> changed, fingerprint |-> fp, error |-> None]

\* _run_one(key, name, url, contains): resp is what safe_request returns, read_ok
\* whether the state file can be read, dirs_ok whether os.makedirs succeeds,
\* write_ok whether safe_write_file succeeds
RunOne ==
    /\ Len(checks.results) < MaxChecks
    /\ \E resp \in {None} \cup {<<"resp", b>> : b \in Bodies}, contains \in ContainsSettings,
          read_ok \in BOOLEAN, dirs_ok \in BOOLEAN, write_ok \in BOOLEAN :
        LET prev_fp == IF checks.state_file = None \/ ~read_ok THEN None
                       ELSE checks.state_file[2]
            text == resp[2]
            fp == _sha256(_normalize_text_for_fingerprint(text))
            missing == contains # None /\ ~Contains(text, contains)
            result == IF resp = None THEN FailedResult(None, None, "Request failed")
                      ELSE IF missing THEN FailedResult(200, fp, "Response missing expected substring")
                      ELSE IF ~dirs_ok THEN FailedResult(None, None, "makedirs failed")
                      ELSE OkResult(Changed(prev_fp, fp), fp)
            written == resp # None /\ ~missing /\ dirs_ok /\ write_ok
            file == IF written THEN <<"fingerprint", fp>> ELSE checks.state_file
        IN  checks' = [state_file |-> file,
                       results |-> Append(checks.results, result),
                       stored |-> Append(checks.stored, file)]
    /\ UNCHANGED <<clock, dir, changes_file, runs, procVars, saved, call, again, parsed, fs, writer, delta, keyed, pipeline>>

InitChecks == StartState /\ call = NoCall /\ again = NoCall /\ parsed = NoParse /\ checks = NoChecks /\ pipeline = NoPipeline /\ keyed = NoKeyed /\ delta = NoDelta /\ writer = NoWriters /\ fs = NoFiles

NextChecks == RunOne

SpecChecks == InitChecks /\ [][NextChecks]_vars

(***************************************************************************)
(* run_all over several configured keys                                    *)
(***************************************************************************)
\* how many iterations of the loop of run_all are followed
MaxKeyChecks == 3

\* keys of the content_checks mapping of the configuration
CheckKeys == {<<"a", " ", "b">>, <<"a", "_", "b">>, <<"c">>}

\* the characters of the class [a-zA-Z0-9_.-] among those the keys use
SafeChars == {"a", "b", "c", "_", ".", "-"}

\* re.sub(r"[^a-zA-Z0-9_.-]+", "_", name): each run of other characters becomes one "_"
RECURSIVE SubUnsafe(_, _)
SubUnsafe(name, i) ==
    IF i > Len(name) THEN <<>>
    ELSE IF name[i] \in SafeChars THEN <<name[i]>> \o SubUnsafe(name, i + 1)
    ELSE IF i > 1 /\ name[i - 1] \notin SafeChars THEN SubUnsafe(name, i + 1)
    ELSE <<"_">> \o SubUnsafe(name, i + 1)

\* os.path.join("data", "content_checks", f"{safe}.json")
_state_path(name) == <<"data", "content_checks", SubUnsafe(name, 1), ".json">>

StatePaths == {_state_path(key) : key \in CheckKeys}

\* the pages the checked URLs answer with
KeyBodies == {<<"a", " ", "b">>, <<"a", " ", "c">>}

\* the entry of one key: "not cfg or not isinstance(cfg, dict)", cfg.get("enabled"),
\* cfg.get("url")
CheckCfgs == [is_dict : BOOLEAN, enabled : BOOLEAN, has_url : BOOLEAN]

\* _run_one on the state file it finds: the result it returns and the state
\* file it leaves
_run_one(state_file, resp, contains, read_ok, dirs_ok, write_ok) ==
    LET prev_fp == IF state_file = None \/ ~read_ok THEN None ELSE state_file[2]
        text == resp[2]
        fp == _sha256(_normalize_text_for_fingerprint(text))
        missing == contains # None /\ ~Contains(text, contains)
        written == resp # None /\ ~missing /\ dirs_ok /\ write_ok
    IN  [result |-> IF resp = None THEN FailedResult(None, None, "Request failed")
                    ELSE IF missing THEN FailedResult(200, fp, "Response missing expected substring")
                    ELSE IF ~dirs_ok THEN FailedResult(None, None, "makedirs failed")
                    ELSE OkResult(Changed(prev_fp, fp), fp),
         file |-> IF written THEN <<"fingerprint", fp>> ELSE state_file]

\* one iteration of "for key, cfg in self.checks.items()" that appends a result:
\* an entry that is no mapping or is not enabled is skipped
RunAllStep ==
    /\ Len(keyed.results) < MaxKeyChecks
    /\ \E key \in CheckKeys, cfg \in CheckCfgs,
          resp \in {None} \cup {<<"resp", b>> : b \in KeyBodies}, contains \in ContainsSettings,
          read_ok \in BOOLEAN, dirs_ok \in BOOLEAN, write_ok \in BOOLEAN :
        /\ cfg.is_dict /\ cfg.enabled
        /\ LET state_path == _state_path(key)
               got == _run_one(keyed.files[state_path], resp, contains, read_ok, dirs_ok, write_ok)
           IN  IF ~cfg.has_url
               THEN keyed' = [keyed EXCEPT !.results =
                                 Append(@, [key |-> key,
                                            r |-> FailedResult(None, None, "Missing url in config")])]
               ELSE keyed' = [files |-> [keyed.files EXCEPT ![state_path] = got.file],
                              results |-> Append(keyed.results, [key |-> key, r |-> got.result]),
                              clean |-> keyed.clean /\ read_ok /\ write_ok]
    /\ UNCHANGED <<clock, dir, changes_file, runs, procVars, saved, call, again, parsed, checks, fs, writer, delta, pipeline>>

InitKeys ==
    /\ StartState /\ call = NoCall /\ again = NoCall /\ parsed = NoParse /\ checks = NoChecks /\ pipeline = NoPipeline
    /\ delta = NoDelta /\ writer = NoWriters /\ fs = NoFiles
    /\ keyed = [NoKeyed EXCEPT !.files = [path \in StatePaths |-> None]]

NextKeys == RunAllStep

SpecKeys == InitKeys /\ [][NextKeys]_vars

(***************************************************************************)
(* cmd_run_all step by step                                                *)
(***************************************************************************)
\* "for step, module in [...]": the command sequence of cmd_run_all
Steps == <<"ingest", "index", "embed", "evaluate", "report", "issues", "dashboard", "notify">>

\* what the main() of a step module returns: 0, or 1 after it logged its failure
ExitStatuses == {0, 1}

\* the loop moves on to the next pair of the list, or ends after the last
Advance(p) ==
    IF p.at = Len(Steps) THEN [p EXCEPT !.pc = "done"]
    ELSE [p EXCEPT !.pc = "loop", !.at = @ + 1]

\* _invoke_module(module) is entered: the step is started
InvokeModule ==
    /\ pipeline.pc = "loop"
    /\ pipeline' = [pipeline EXCEPT !.pc = "invoked", !.started = Append(@, Steps[pipeline.at])]
    /\ UNCHANGED <<clock, dir, changes_file, runs, procVars, saved, call, again, parsed, checks, fs, writer, delta, keyed>>

\* the entry point returns; _invoke_module hands its value back and cmd_run_all
\* drops it.  The ingest step goes on to _ingest_graphql_if_enabled.
ModuleReturns ==
    /\ pipeline.pc = "invoked"
    /\ \E exit_status \in ExitStatuses :
        LET returned == [pipeline EXCEPT !.status = Append(@, exit_status)]
        IN  pipeline' = IF Steps[pipeline.at] = "ingest" THEN [returned EXCEPT !.pc = "hook"]
                        ELSE Advance(returned)
    /\ UNCHANGED <<clock, dir, changes_file, runs, procVars, saved, call, again, parsed, checks, fs, writer, delta, keyed>>

\* import_module, the lookup of the entry point or the entry point itself
\* raises: "log.error('Step %s failed: %s', step, e); raise"
ModuleRaises ==
    /\ pipeline.pc = "invoked"
    /\ pipeline' = [pipeline EXCEPT !.pc = "raised", !.raised = TRUE]
    /\ UNCHANGED <<clock, dir, changes_file, runs, procVars, saved, call, again, parsed, checks, fs, writer, delta, keyed>>

\* _ingest_graphql_if_enabled returns the number of records added
HookReturns ==
    /\ pipeline.pc = "hook"
    /\ pipeline' = Advance(pipeline)
    /\ UNCHANGED <<clock, dir, changes_file, runs, procVars, saved, call, again, parsed, checks, fs, writer, delta, keyed>>

\* with graphql_schema_diff among the feature_sources the hook or the merge
\* into the features file may raise, which ends cmd_run_all as above
HookRaises ==
    /\ pipeline.pc = "hook"
    /\ pipeline.graphql
    /\ pipeline' = [pipeline EXCEPT !.pc = "raised", !.raised = TRUE]
    /\ UNCHANGED <<clock, dir, changes_file, runs, procVars, saved, call, again, parsed, checks, fs, writer, delta, keyed>>

InitRunAll ==
    /\ StartState /\ call = NoCall /\ again = NoCall /\ parsed = NoParse /\ checks = NoChecks
    /\ delta = NoDelta /\ writer = NoWriters /\ fs = NoFiles /\ keyed = NoKeyed
    /\ \E graphql \in BOOLEAN :
        pipeline = [NoPipeline EXCEPT !.pc = "loop", !.at = 1, !.graphql = graphql]

NextRunAll == InvokeModule \/ ModuleReturns \/ ModuleRaises \/ HookReturns \/ HookRaises

SpecRunAll == InitRunAll /\ [][NextRunAll]_vars

(***************************************************************************)
(* safe_write_file step by step (src/src/feature_monitor/utils.py)         *)
(***************************************************************************)
\* each writer calls safe_write_file at most MaxWrites times
MaxWrites == 2

\* the byte that fills the gap when a write lands beyond the end of a file
Nul == "NUL"

\* the contents written
WriteTexts == {<<"a", "b">>, <<"c", "d", "e", "f">>, <<"g">>}

\* the path both writers save to: the snapshot of one date, and its temporary file
Target == SnapshotName(At(FirstDate, 0))

\* what a read of the file at path returns: <<"None">> when no such file exists
FileAt(f, path) == IF path \in DOMAIN f.names THEN <<"str", f.data[f.names[path]]>> ELSE None

\* f.write(content) reaches the file in pieces when the content exceeds the
\* buffer (two representatives: the first half and the rest)
Chunks(text) ==
    IF Len(text) <= 1 THEN <<text>>
    ELSE <<SubSeq(text, 1, Len(text) \div 2), SubSeq(text, (Len(text) \div 2) + 1, Len(text))>>

\* a write of chunk at offset off of a file holding content
WriteAt(content, off, chunk) ==
    LET end == IF Len(content) > off + Len(chunk) THEN Len(content) ELSE off + Len(chunk)
    IN  [i \in 1..end |-> IF i > off /\ i <= off + Len(chunk) THEN chunk[i - off]
                          ELSE IF i <= Len(content) THEN content[i]
                          ELSE Nul]

\* open(path, 'w'): the file is created, or the one of that name is emptied
OpenW(f, path) ==
    IF path \in DOMAIN f.names
    THEN [f EXCEPT !.data[f.names[path]] = <<>>]
    ELSE [names |-> Put(f.names, path, Len(f.data) + 1), data |-> Append(f.data, <<>>)]

\* os.replace(src, dst) of an existing src: dst names the file src named
Rename(f, src, dst) == [f EXCEPT !.names = Put(Remove(f.names, src), dst, f.names[src])]

\* safe_write_file(filepath, content) is entered; os.makedirs(..., exist_ok=True)
BeginWrite(p) ==
    /\ writer[p].pc \in {"idle", "done", "crashed"}
    /\ writer[p].calls < MaxWrites
    /\ \E text \in WriteTexts :
        writer' = [writer EXCEPT ![p] = [pc |-> "open", text |-> text, inode |-> 0, off |-> 0,
                                         chunk |-> 1, ok |-> FALSE, prev |-> FileAt(fs, Target),
                                         calls |-> writer[p].calls + 1]]
    /\ UNCHANGED <<clock, dir, changes_file, runs, procVars, saved, call, again, parsed, checks, fs, delta, keyed, pipeline>>

\* with open(temp_filepath, 'w', encoding='utf-8') as f
OpenTmp(p) ==
    /\ writer[p].pc = "open"
    /\ fs' = OpenW(fs, TempName(Target))
    /\ writer' = [writer EXCEPT ![p].pc = "write", ![p].inode = fs'.names[TempName(Target)]]
    /\ UNCHANGED <<clock, dir, changes_file, runs, procVars, saved, call, again, parsed, checks, delta, keyed, pipeline>>

\* f.write(content): one piece reaches the file; after the last one the file is closed
WriteChunk(p) ==
    /\ writer[p].pc = "write"
    /\ LET w == writer[p]
           piece == Chunks(w.text)[w.chunk]
       IN  /\ fs' = [fs EXCEPT !.data[w.inode] = WriteAt(@, w.off, piece)]
           /\ writer' = [writer EXCEPT ![p].off = w.off + Len(piece),
                                       ![p].chunk = w.chunk + 1,
                                       ![p].pc = IF w.chunk = Len(Chunks(w.text)) THEN "replace" ELSE "write"]
    /\ UNCHANGED <<clock, dir, changes_file, runs, procVars, saved, call, again, parsed, checks, delta, keyed, pipeline>>

\* os.replace(temp_filepath, filepath) and return True; FileNotFoundError when the
\* temporary file is gone, which the except clause turns into return False
ReplaceTmp(p) ==
    /\ writer[p].pc = "replace"
    /\ IF TempName(Target) \in DOMAIN fs.names
       THEN /\ fs' = Rename(fs, TempName(Target), Target)
            /\ writer' = [writer EXCEPT ![p].pc = "done", ![p].ok = TRUE]
       ELSE /\ fs' = fs
            /\ writer' = [writer EXCEPT ![p].pc = "done", ![p].ok = FALSE]
    /\ UNCHANGED <<clock, dir, changes_file, runs, procVars, saved, call, again, parsed, checks, delta, keyed, pipeline>>

\* the process dies between two steps of safe_write_file
Crash(p) ==
    /\ writer[p].pc \in {"open", "write", "replace"}
    /\ writer' = [writer EXCEPT ![p].pc = "crashed"]
    /\ UNCHANGED <<clock, dir, changes_file, runs, procVars, saved, call, again, parsed, checks, fs, delta, keyed, pipeline>>

InitWrite ==
    /\ StartState
    /\ call = NoCall
    /\ again = NoCall
    /\ parsed = NoParse
    /\ checks = NoChecks
    /\ pipeline = NoPipeline
    /\ keyed = NoKeyed
    /\ delta = NoDelta
    /\ fs = NoFiles
    /\ writer = NoWriters

\* one writer, which can die at any point and be started again
NextCrash == BeginWrite(1) \/ OpenTmp(1) \/ WriteChunk(1) \/ ReplaceTmp(1) \/ Crash(1)

SpecCrash == InitWrite /\ [][NextCrash]_vars

\* two writers at the same time, neither of which dies
NextRace ==
    \/ \E p \in Writers : BeginWrite(p)
    \/ \E p \in Writers : OpenTmp(p)
    \/ \E p \in Writers : WriteChunk(p)
    \/ \E p \in Writers : ReplaceTmp(p)

SpecRace == InitWrite /\ [][NextRace]_vars

(***************************************************************************)
(* The dashboard delta (src/src/feature_monitor/dashboard_delta.py)        *)
(***************************************************************************)
\* the "features" list of the new dashboard has at most MaxItems entries
MaxItems == 3

\* a dict of a "features" list with the given id and title; the other keys hold
\* fixed values
Obj(id, title) ==
    [is_dict |-> TRUE, id |-> id, title |-> title, source_type |-> <<"r", "s", "s">>,
     product_area |-> None, source_url |-> <<"u">>, date_discovered |-> <<"d", " ">>]

\* the entries a "features" list is made of: dicts whose ids and titles differ by
\* white space only or for good, a dict without an id, and an entry that is no dict
ObjA == Obj(<<"a">>, <<"T">>)

ObjASpaced == Obj(<<"a">>, <<"T", " ">>)

ObjARetitled == Obj(<<" ", "a">>, <<"U">>)

ObjB == Obj(<<"b">>, <<"T">>)

ObjC == Obj(<<"c">>, <<"V">>)

ObjNoId == Obj(None, <<"Z">>)

ListEntries == <<ObjA, ObjASpaced, ObjARetitled, ObjB, ObjNoId, NoObject>>

OldEntries == <<ObjA, ObjC, ObjNoId>>

\* the "gaps" lists: dicts with an "impact" (None when missing) and other entries
Gap(impact) == [is_dict |-> TRUE, impact |-> impact]

NewGaps == <<Gap(<<"H", "i", "g", "h", " ">>), Gap(None), [is_dict |-> FALSE, impact |-> None],
             Gap(<<"s", "o", "o", "n">>)>>

OldGaps == <<Gap(<<"l", "o", "w">>)>>

GeneratedAt == <<"2", "0", "2", "5">>

\* an existing dashboard file with these features and gaps
Dashboard(features_raw, gaps) ==
    [exists |-> TRUE, empty |-> FALSE, generated_at |-> GeneratedAt, features |-> features_raw, gaps |-> gaps]

\* an existing dashboard file holding {} or null
EmptyDashboard == [exists |-> TRUE, empty |-> TRUE, generated_at |-> None, features |-> <<>>, gaps |-> <<>>]

ListsOf(entries, n) == {[i \in 1..Len(c) |-> entries[c[i]]] : c \in Choices(n, Len(entries))}

NewDashboards == {Dashboard(l, NewGaps) : l \in ListsOf(ListEntries, MaxItems)} \cup {EmptyDashboard}

OldDashboards ==
    {Dashboard(l, OldGaps) : l \in ListsOf(OldEntries, 2)} \cup {EmptyDashboard, NoDashboard}

\* the values of --top
TopValues == {-1, 0, 1, 2}

\* str(obj.get(key)).strip() if obj.get(key) is not None else None
StrippedOrNone(v) == IF v = None THEN None ELSE Strip(v)

\* str(obj.get(key) or "").strip()
StrippedOrEmpty(v) == IF v = None THEN <<>> ELSE Strip(v)

\* FeatureLite.from_obj
from_obj(obj) ==
    [id |-> StrippedOrEmpty(obj.id),
     title |-> StrippedOrEmpty(obj.title),
     source_type |-> StrippedOrNone(obj.source_type),
     product_area |-> StrippedOrNone(obj.product_area),
     source_url |-> StrippedOrNone(obj.source_url),
     date_discovered |-> StrippedOrNone(obj.date_discovered)]

\* out[feature.id] = feature: a dict keeps the place of a key it already has
SetItem(out, feature) ==
    IF \E i \in 1..Len(out) : out[i].id = feature.id
    THEN [i \in 1..Len(out) |-> IF out[i].id = feature.id THEN feature ELSE out[i]]
    ELSE Append(out, feature)

\* the loop of _extract_features from the k-th entry on
RECURSIVE ExtractFrom(_, _, _)
ExtractFrom(features_raw, k, out) ==
    IF k > Len(features_raw) THEN out
    ELSE IF ~features_raw[k].is_dict THEN ExtractFrom(features_raw, k + 1, out)
    ELSE LET feature == from_obj(features_raw[k])
         IN  IF feature.id = <<>> THEN ExtractFrom(features_raw, k + 1, out)
             ELSE ExtractFrom(features_raw, k + 1, SetItem(out, feature))

\* _extract_features: the dict id -> FeatureLite, as the sequence of its values in
\* insertion order
_extract_features(dashboard) == ExtractFrom(dashboard.features, 1, <<>>)

\* the keys of such a dict, and the value of a key
Keys(by_id) == {by_id[i].id : i \in 1..Len(by_id)}

Get(by_id, id) == by_id[CHOOSE i \in 1..Len(by_id) : by_id[i].id = id]

\* sorted(S) of a set of str
RECURSIVE Sorted(_)
Sorted(S) ==
    IF S = {} THEN <<>>
    ELSE LET least == CHOOSE x \in S : \A y \in S : x = y \/ StrLess(x, y)
         IN  <<least>> \o Sorted(S \ {least})

\* the keys of counts in _extract_gap_counts
GapKeys == {<<"t", "o", "t", "a", "l">>, <<"h", "i", "g", "h">>, <<"m", "e", "d", "i", "u", "m">>,
            <<"l", "o", "w">>, <<"u", "n", "k", "n", "o", "w", "n">>}

KeyUnknown == <<"u", "n", "k", "n", "o", "w", "n">>

\* the loop of _extract_gap_counts from the k-th entry on
RECURSIVE GapCountsFrom(_, _, _)
GapCountsFrom(gaps, k, counts) ==
    IF k > Len(gaps) THEN counts
    ELSE IF ~gaps[k].is_dict THEN GapCountsFrom(gaps, k + 1, counts)
    ELSE LET given == IF gaps[k].impact = None \/ gaps[k].impact = <<>> THEN KeyUnknown ELSE gaps[k].impact
             lowered == LowerStr(Strip(given))
             impact == IF lowered \in GapKeys THEN lowered ELSE KeyUnknown
             counted == [counts EXCEPT ![<<"t", "o", "t", "a", "l">>] = @ + 1]
         IN  GapCountsFrom(gaps, k + 1, [counted EXCEPT ![impact] = @ + 1])

_extract_gap_counts(dashboard) == GapCountsFrom(dashboard.gaps, 1, [key \in GapKeys |-> 0])

\* the fields _diff_features compares
ComparedFields == {"title", "source_type", "product_area", "source_url", "date_discovered"}

\* faulty variant of field_changes: the title is not compared
field_changesUntitled(old_f, new_f) ==
    [field \in {f \in ComparedFields \ {"title"} : old_f[f] # new_f[f]} |-> [old |-> old_f[field], new |-> new_f[field]]]

field_changes(old_f, new_f) ==
    [field \in {f \in ComparedFields : old_f[f] # new_f[f]} |-> [old |-> old_f[field], new |-> new_f[field]]]

\* the entry of "changed" for an id of both dashboards
ChangedEntry(old_f, new_f) ==
    [id |-> new_f.id,
     title |-> IF new_f.title # <<>> THEN new_f.title ELSE old_f.title,
     fields |-> field_changes(old_f, new_f)]

\* _diff_features
_diff_features(old_by_id, new_by_id) ==
    LET old_ids == Keys(old_by_id)
        new_ids == Keys(new_by_id)
        added_ids == Sorted(new_ids \ old_ids)
        removed_ids == Sorted(old_ids \ new_ids)
        common == Sorted(old_ids \cap new_ids)
        differs(id) == Get(old_by_id, id) # Get(new_by_id, id)
        differing == SelectSeq(common, differs)
    IN  [added |-> [i \in 1..Len(added_ids) |-> Get(new_by_id, added_ids[i])],
         removed |-> [i \in 1..Len(removed_ids) |-> Get(old_by_id, removed_ids[i])],
         changed |-> [i \in 1..Len(differing) |->
                         ChangedEntry(Get(old_by_id, differing[i]), Get(new_by_id, differing[i]))]]

\* the loop of _top_items from the k-th item on: append, then test the length
RECURSIVE TopFrom(_, _, _, _)
TopFrom(items, k, out, limit) ==
    IF k > Len(items) THEN out
    ELSE LET grown == Append(out, items[k])
         IN  IF Len(grown) >= limit THEN grown ELSE TopFrom(items, k + 1, grown, limit)

_top_items(items, limit) == TopFrom(items, 1, <<>>, limit)

\* seq[:n] of Python, n negative included
SliceTo(seq, n) ==
    LET stop == IF n >= 0 THEN n ELSE Len(seq) + n
    IN  SubSeq(seq, 1, IF stop > Len(seq) THEN Len(seq) ELSE IF stop < 0 THEN 0 ELSE stop)

NoteNoBaseline == "No baseline dashboard.json found; treating all current items as newly added."

ZeroGaps == [key \in GapKeys |-> 0]

\* faulty variant of AddedCount: the first run reports nothing as added
AddedCountOfDiff(has_old, added, new_features) == IF has_old THEN Len(added) ELSE 0

\* "features_added": len(added) if old_dash else len(new_features)
AddedCount(has_old, added, new_features) == IF has_old THEN Len(added) ELSE Len(new_features)

\* generate_delta(old_path, new_path, top_n) at time now; has_old is "if old_dash"
generate_delta(old, new, top_n, now) ==
    LET new_features == _extract_features(new)
        old_features == IF old.exists THEN _extract_features(old) ELSE <<>>
        has_old == old.exists /\ ~old.empty
        diff == _diff_features(old_features, new_features)
    IN  [added |-> diff.added,
         removed |-> diff.removed,
         changed |-> diff.changed,
         result |->
            [generated_at |-> IsoFormat(now),
             baseline_generated_at |-> IF has_old THEN old.generated_at ELSE None,
             new_generated_at |-> new.generated_at,
             counts |-> [total_old |-> Len(old_features),
                         total_new |-> Len(new_features),
                         features_added |-> AddedCount(has_old, diff.added, new_features),
                         features_removed |-> IF has_old THEN Len(diff.removed) ELSE 0,
                         features_changed |-> IF has_old THEN Len(diff.changed) ELSE 0],
             gaps |-> [old |-> IF has_old THEN _extract_gap_counts(old) ELSE ZeroGaps,
                       new |-> _extract_gap_counts(new)],
             top_added |-> _top_items(IF has_old THEN diff.added ELSE new_features, top_n),
             top_removed |-> _top_items(diff.removed, top_n),
             changed |-> SliceTo(diff.changed, top_n),
             note |-> IF has_old THEN None ELSE <<"str", NoteNoBaseline>>]]

InitDelta ==
    /\ StartState
    /\ call = NoCall
    /\ again = NoCall
    /\ parsed = NoParse
    /\ checks = NoChecks
    /\ pipeline = NoPipeline
    /\ keyed = NoKeyed
    /\ fs = NoFiles
    /\ writer = NoWriters
    /\ \E o \in OldDashboards, n \in NewDashboards, t \in TopValues :
        delta = [NoDelta EXCEPT !.old = o, !.new = n, !.top_n = t]

CallGenerateDelta ==
    /\ ~delta.returned
    /\ LET got == generate_delta(delta.old, delta.new, delta.top_n, clock)
       IN  delta' = [delta EXCEPT !.returned = TRUE, !.added = got.added, !.removed = got.removed,
                                  !.changed = got.changed, !.result = <<got.result>>]
    /\ UNCHANGED <<clock, dir, changes_file, runs, procVars, saved, call, again, parsed, checks, fs, writer, keyed, pipeline>>

NextDelta == CallGenerateDelta

SpecDelta == InitDelta /\ [][NextDelta]_vars

(***************************************************************************)
(* Properties of detect_changes (checked under SpecDiff)                   *)
(***************************************************************************)
WatchList == {NameMutation, NameQuery, NameRepository, NamePullRequest, NameIssue}

CallOldTypes == parse_schema_types(call.old)

CallNewTypes == parse_schema_types(call.new)

CallAddedTypes == CallNewTypes \ CallOldTypes

CallAddedFields(T) == parse_schema_fields(call.new, T) \ parse_schema_fields(call.old, T)

SignificantName(N) ==
    \E kw \in {SigMutation, SigQuery, SigInput, SigPayload} : Contains(LowerStr(N), kw)

\* the positions of the records of call.result that report a new field of type T
FieldRecordsOf(T) ==
    {k \in 1..Len(call.result) :
        StartsWith(call.result[k].title, FieldTitlePrefix \o T \o <<".">>)}

\* the names N that call.result reports as new types
ReportedTypes ==
    {N \in CallOldTypes \cup CallNewTypes :
        \E k \in 1..Len(call.result) : call.result[k].title = TypeTitlePrefix \o N}

\* C1: a new-type record is emitted for a name N exactly when N is declared in the
\* new schema and not in the old one, and N is significant (its lower-cased name
\* contains mutation, query, input or payload) or at most 10 types were added; no
\* other new-type record is emitted.
C1_SignificanceFilter ==
    call.returned =>
        /\ ReportedTypes =
              {N \in CallAddedTypes : SignificantName(N) \/ Cardinality(CallAddedTypes) <= 10}
        /\ \A k \in 1..Len(call.result) :
              StartsWith(call.result[k].title, TypeTitlePrefix)
                  => \E N \in CallAddedTypes : call.result[k].title = TypeTitlePrefix \o N

\* 11 types were added: the significant ones are reported, the others are not
C1_Witness ==
    /\ call.returned
    /\ Cardinality(CallAddedTypes) = 11
    /\ ReportedTypes # {}
    /\ ReportedTypes # CallAddedTypes
    /\ CallOldTypes # {}

\* C2: for every watched type declared in both schemas that gained n fields, exactly
\* min(n, 5) new-field records are emitted for it, each for a field of the added
\* set, no two for the same field.
C2_FieldCap ==
    call.returned =>
        \A T \in WatchList \cap CallOldTypes \cap CallNewTypes :
            LET added == CallAddedFields(T)
                n == Cardinality(added)
                recs == FieldRecordsOf(T)
            IN  /\ Cardinality(recs) = IF n < 5 THEN n ELSE 5
                /\ \A k \in recs : \E f \in added :
                      call.result[k].title = FieldTitlePrefix \o T \o <<".">> \o f
                /\ \A j, k \in recs : call.result[j].title = call.result[k].title => j = k

\* a watched type gained 7 fields and 5 records were emitted for it
C2_Witness ==
    /\ call.returned
    /\ \E T \in WatchList \cap CallOldTypes \cap CallNewTypes :
          /\ Cardinality(CallAddedFields(T)) = 7
          /\ Cardinality(FieldRecordsOf(T)) = 5

\* C3: every new-field record is for one of Mutation, Query, Repository, PullRequest
\* and Issue, declared in both the old and the new schema, and names a field that
\* parse_schema_fields finds in the new schema and not in the old one.
C3_WatchedTypesOnly ==
    call.returned =>
        \A k \in 1..Len(call.result) :
            StartsWith(call.result[k].title, FieldTitlePrefix) =>
                \E T \in WatchList :
                    /\ T \in CallOldTypes
                    /\ T \in CallNewTypes
                    /\ \E f \in CallAddedFields(T) :
                          call.result[k].title = FieldTitlePrefix \o T \o <<".">> \o f

\* a watched type yields a record while an unwatched type that gained a field and
\* a watched type that is newly declared with fields yield none
C3_Witness ==
    /\ call.returned
    /\ \E k \in 1..Len(call.result) : StartsWith(call.result[k].title, FieldTitlePrefix)
    /\ NameWidget \in CallOldTypes \cap CallNewTypes
    /\ CallAddedFields(NameWidget) # {}
    /\ NameIssue \in CallAddedTypes
    /\ parse_schema_fields(call.new, NameIssue) # {}

NameA == <<"a">>

NameB == <<"b">>

\* C15 as stated: for the old schema 'type Query { a: String }' and the new schema
\* 'type Query { a: String b: Int }' detect_changes emits exactly one record, the
\* new-field record of Query.b.
C15_InlineScenario ==
    (call.returned /\ call.old = InlineOld /\ call.new = InlineNew) =>
        /\ Len(call.result) = 1
        /\ call.result[1].title = FieldTitlePrefix \o NameQuery \o <<".">> \o NameB

\* C15, amended: for the same two schemas written with the opening line, every
\* field and the closing brace on lines of their own, the fields indented,
\* detect_changes emits exactly one record, the new-field record of Query.b.
C15_LinedScenario ==
    (call.returned /\ call.old = LinedOld /\ call.new = LinedNew) =>
        /\ Len(call.result) = 1
        /\ call.result[1].title = FieldTitlePrefix \o NameQuery \o <<".">> \o NameB
        /\ call.result[1].description
              = FieldDescHead \o NameB \o FieldDescMid \o NameQuery \o FieldDescTail

\* the call on the two schemas written line by line has returned one record
C15_Witness ==
    /\ call.returned
    /\ call.old = LinedOld
    /\ call.new = LinedNew
    /\ Len(call.result) = 1
    /\ parse_schema_fields(call.old, NameQuery) = {NameA}
    /\ parse_schema_fields(call.new, NameQuery) = {NameA, NameB}

\* C16: no two records of one call have the same subject: no two have the same
\* title (kind, type and field) or the same description.
C16_OneRecordPerSubject ==
    call.returned =>
        \A j, k \in 1..Len(call.result) :
            (\/ call.result[j].title = call.result[k].title
             \/ call.result[j].description = call.result[k].description) => j = k

\* a call that reported several new fields of each of two types
C16_Witness ==
    /\ call.returned
    /\ Cardinality(FieldRecordsOf(NameQuery)) >= 2
    /\ Cardinality(FieldRecordsOf(NameIssue)) >= 2

\* the number of records the differ lets through for the watched types declared
\* in both schemas (both), from position k of the watch list on
RECURSIVE FieldChangesFrom(_, _)
FieldChangesFrom(both, k) ==
    IF k > Len(important_types) THEN 0
    ELSE LET T == important_types[k]
             n == IF T \in both THEN Cardinality(CallAddedFields(T)) ELSE 0
         IN  (IF n < 5 THEN n ELSE 5) + FieldChangesFrom(both, k + 1)

\* C19: the result holds one record per change that passes the differ, and every
\* record has source_type 'graphql_schema_diff', source_url
\* 'https://docs.github.com/graphql', product_area 'API', and as tags the markers
\* graphql, api and schema-change (new type) or field-addition (new field)
\* followed by the lower-cased name of the subject type.
C19_SynthesisTotal ==
    call.returned =>
      LET old_types == CallOldTypes
          new_types == CallNewTypes
          added == new_types \ old_types
          few == Cardinality(added) <= 10
      IN
        /\ Len(call.result)
              = Cardinality({N \in added : SignificantName(N) \/ few})
                + FieldChangesFrom(old_types \cap new_types, 1)
        /\ \A k \in 1..Len(call.result) :
              LET r == call.result[k]
              IN  /\ r.source_type = <<"g", "r", "a", "p", "h", "q", "l", "_", "s", "c", "h", "e", "m", "a", "_", "d", "i", "f", "f">>
                  /\ r.source_url = <<"h", "t", "t", "p", "s", ":", "/", "/", "d", "o", "c", "s", ".", "g", "i", "t", "h", "u", "b", ".", "c", "o", "m", "/", "g", "r", "a", "p", "h", "q", "l">>
                  /\ r.product_area = <<"A", "P", "I">>
                  /\ \E T \in new_types :
                        \/ /\ r.title = TypeTitlePrefix \o T
                           /\ r.tags = <<TagGraphql, TagApi, TagSchemaChange, LowerStr(T)>>
                        \/ /\ StartsWith(r.title, FieldTitlePrefix \o T \o <<".">>)
                           /\ r.tags = <<TagGraphql, TagApi, TagFieldAddition, LowerStr(T)>>

\* a call that returned a new-type record and a new-field record, the last tag of
\* each differing from the name as declared
C19_Witness ==
    /\ call.returned
    /\ \E j, k \in 1..Len(call.result) :
          /\ StartsWith(call.result[j].title, TypeTitlePrefix)
          /\ StartsWith(call.result[k].title, FieldTitlePrefix)
          /\ call.result[j].tags[4] = <<"i", "s", "s", "u", "e">>
          /\ call.result[k].tags[4] = <<"q", "u", "e", "r", "y">>

\* C26: within a single diff run all emitted records have pairwise distinct ids,
\* also when an added type is named '<WatchedType>_<field>' for a field added to
\* that watched type in the same run.
C26_DistinctIds ==
    call.returned =>
        \A i \in 1..Len(call.result) : \A j \in 1..Len(call.result) :
            i # j => call.result[i].id # call.result[j].id

\* a record without the time it was made at
Undated(r) == [id |-> r.id, title |-> r.title, description |-> r.description,
               source_type |-> r.source_type, source_url |-> r.source_url,
               product_area |-> r.product_area, tags |-> r.tags]

\* C18: two calls of detect_changes with equal old and new schemas, made on the
\* same day, return the same set of records, the time of discovery left aside.
C18_DiffPure ==
    again.returned =>
        {Undated(call.result[k]) : k \in 1..Len(call.result)}
            = {Undated(again.result[k]) : k \in 1..Len(again.result)}

(***************************************************************************)
(* Properties of the pipeline (checked under Spec)                         *)
(***************************************************************************)
IsSnapshotName(f) == StartsWith(f, SnapshotPrefix) /\ EndsWith(f, SnapshotSuffix)

\* the snapshots of a directory: snapshot file name -> text
SnapshotStore(d) == [f \in {g \in DOMAIN d : IsSnapshotName(g)} |-> d[f]]

Logged(p, msg) == msg \in Range(log[p])

\* run() of process p has returned
Returned(p) == pc[p] = "finish" \/ (pc[p] = "exited" /\ Logged(p, LogStart))

\* C4: a run that starts with no snapshot stored, or only the one of the date it
\* saves for, and whose fetch and save succeed, returns an empty list, exits with
\* status 0 and does not reach detect_changes.
C4_NoHistoryIsSuccess ==
    \A p \in Procs :
        (/\ Returned(p)
         /\ Logged(p, LogSaved)
         /\ DOMAIN SnapshotStore(start_dir[p]) \subseteq {filepath[p]})
        => /\ features[p] = <<>>
           /\ prev_snapshot[p] = None
           /\ Logged(p, LogNoPrevious)
           /\ ~Logged(p, LogComparing)
           /\ ~Logged(p, LogDetected)
           /\ pc[p] = "exited" => status[p] = 0

\* a run that found only today's snapshot stored, saved over it and exited with 0
C4_Witness ==
    \E p \in Procs :
        /\ pc[p] = "exited"
        /\ Logged(p, LogSaved)
        /\ DOMAIN SnapshotStore(start_dir[p]) = {filepath[p]}
        /\ status[p] = 0

\* C5: a fetch failure and a save failure end the run with a non-zero status, and
\* a run that finds no previous snapshot ends with status 0 and an empty list.
C5_FailuresSurfaced ==
    \A p \in Procs :
        pc[p] = "exited" =>
            /\ (Logged(p, LogFetchFailed) \/ Logged(p, LogSaveFailed)) => status[p] # 0
            /\ Logged(p, LogNoPrevious) => (status[p] = 0 /\ features[p] = <<>>)

\* C6: when run() has returned after a failed fetch, nothing was written: the
\* directory is as it was when the run started; when it has returned after a failed
\* save, the stored snapshots (names and texts) are those of the start of the run.
C6_FailedRunLeavesStore ==
    \A p \in Procs :
        Returned(p) =>
            /\ Logged(p, LogAbort) =>
                  /\ dir = start_dir[p]
                  /\ ~Logged(p, LogWriteOk)
                  /\ ~Logged(p, LogWriteFailed)
            /\ Logged(p, LogSaveFailed) => SnapshotStore(dir) = SnapshotStore(start_dir[p])

\* a save that failed part-way while another text was already stored for today
C6_Witness ==
    \E p \in Procs :
        /\ pc[p] = "finish"
        /\ Logged(p, LogSaveFailed)
        /\ filepath[p] \in DOMAIN start_dir[p]
        /\ start_dir[p][filepath[p]] # current_schema[p][2]
        /\ TempName(filepath[p]) \in DOMAIN dir
        /\ dir[TempName(filepath[p])] # current_schema[p][2]

\* C7: when the snapshot cannot be saved, main() sees the error (status 1), and no
\* previous snapshot is loaded and no diff is computed.
C7_SaveErrorPropagated ==
    \A p \in Procs :
        (pc[p] = "exited" /\ Logged(p, LogSaveFailed)) =>
            /\ status[p] = 1
            /\ prev_snapshot[p] = None
            /\ ~Logged(p, LogDetected)

\* C8: the stored snapshots are one per date for which a save succeeded, and each
\* holds the text of the last save that succeeded for its date.
C8_OnePerDateLastSaveWins ==
    /\ Cardinality(DOMAIN SnapshotStore(dir)) = Cardinality(DOMAIN saved)
    /\ \A d \in DOMAIN saved :
          /\ SnapshotName(d) \in DOMAIN dir
          /\ dir[SnapshotName(d)] = saved[d]

\* a second save on a date replaced the text stored for that date by another one
C8_Witness ==
    \E p \in Procs :
        /\ pc[p] = "load"
        /\ filepath[p] \in DOMAIN start_dir[p]
        /\ dir[filepath[p]] # start_dir[p][filepath[p]]
        /\ dir[filepath[p]] = current_schema[p][2]

\* what get_latest_snapshot returned to run() of p is the snapshot of the
\* second-most-recent stored date, and not the one p has just written
ReturnedSecondMostRecent(p) ==
    \E d \in DOMAIN saved :
        /\ Cardinality({e \in DOMAIN saved : DateLess(d, e)}) = 1
        /\ d # save_date[p]
        /\ prev_snapshot[p] = <<"tuple", SnapshotName(d), saved[d]>>

\* get_latest_snapshot has been called by run() of p and has returned
Loaded(p) == pc[p] \in {"diff", "finish", "exited"} /\ Logged(p, LogSaved)

C10_SnapshotsRetained ==
    [][\A f \in DOMAIN SnapshotStore(dir) :
          /\ f \in DOMAIN dir'
          /\ dir'[f] # dir[f] =>
                \E p \in Procs :
                    /\ pc[p] = "replace"
                    /\ f = filepath[p]
                    /\ f = SnapshotName(save_date[p])]_vars

\* a run replaced today's snapshot while the snapshot of an earlier date stayed
C10_Witness ==
    \E p \in Procs :
        /\ pc[p] = "load"
        /\ \E f \in DOMAIN SnapshotStore(start_dir[p]) :
              /\ f # filepath[p]
              /\ dir[f] = start_dir[p][f]
        /\ filepath[p] \in DOMAIN start_dir[p]
        /\ dir[filepath[p]] # start_dir[p][filepath[p]]

\* C11 as stated: a run whose source is disabled, or enabled with no URL, sends no
\* request, writes no snapshot, returns an empty list and exits with status 0; the
\* missing URL is logged as a warning.
C11_NoOpWithWarning ==
    \A p \in Procs :
        (Returned(p) /\ (~config[p].enabled \/ ~config[p].has_url)) =>
            /\ ~Logged(p, LogRequest)
            /\ dir = start_dir[p]
            /\ features[p] = <<>>
            /\ pc[p] = "exited" => status[p] = 0
            /\ (config[p].enabled /\ ~config[p].has_url) =>
                  (Logged(p, LogNoUrl) /\ LogLevel(LogNoUrl) = "warning")

\* C11, amended: a run whose source is disabled, or enabled with no URL, sends no
\* request, writes nothing to the snapshot directory, returns an empty list and
\* exits with status 0; the missing URL is logged at error level.
C11_NoOpSuccess ==
    \A p \in Procs :
        (Returned(p) /\ (~config[p].enabled \/ ~config[p].has_url)) =>
            /\ ~Logged(p, LogRequest)
            /\ ~Logged(p, LogFetching)
            /\ ~Logged(p, LogWriteOk)
            /\ ~Logged(p, LogWriteFailed)
            /\ dir = start_dir[p]
            /\ features[p] = <<>>
            /\ pc[p] = "exited" => status[p] = 0
            /\ ~config[p].enabled => Logged(p, LogDisabled)
            /\ (config[p].enabled /\ ~config[p].has_url) =>
                  (Logged(p, LogNoUrl) /\ LogLevel(LogNoUrl) = "error")

\* a run with no URL configured exited with status 0 while snapshots of two earlier
\* runs are stored
C11_Witness ==
    \E p \in Procs :
        /\ pc[p] = "exited"
        /\ config[p].enabled
        /\ ~config[p].has_url
        /\ Logged(p, LogNoUrl)
        /\ status[p] = 0
        /\ Cardinality(DOMAIN SnapshotStore(dir)) = 2

\* the calendar date a record was made on, as YYYY-MM-DD and as YYYYMMDD
DayOf(r) == SubSeq(r.date_discovered, 1, 10)

CompactDayOf(r) ==
    LET NotDash(c) == c # "-"
    IN  SelectSeq(DayOf(r), NotDash)

\* the subject of a record: the type name, or the type and field names joined by
\* '_' as the title gives them
SubjectOf(r) ==
    IF StartsWith(r.title, TypeTitlePrefix)
    THEN SubSeq(r.title, Len(TypeTitlePrefix) + 1, Len(r.title))
    ELSE LET rest == SubSeq(r.title, Len(FieldTitlePrefix) + 1, Len(r.title))
         IN  [i \in 1..Len(rest) |-> IF rest[i] = "." THEN "_" ELSE rest[i]]

\* C17: the id of every record is 'graphql_', the subject name(s) and the calendar
\* date of the run, so a record of a run and a record of the same kind and subject
\* of an earlier run of the same day (the one stored in detected_changes.json)
\* have the same id, whatever the time of day; and the run has written the text it
\* fetched over the snapshot of its date.
C17_IdReproducible ==
    \A p \in Procs :
        (pc[p] = "finish" /\ Logged(p, LogDetected)) =>
            /\ dir[filepath[p]] = current_schema[p][2]
            /\ \A k \in 1..Len(features[p]) :
                  LET r == features[p][k]
                  IN  /\ r.id = <<"g", "r", "a", "p", "h", "q", "l", "_">>
                                 \o SubjectOf(r) \o <<"_">> \o CompactDayOf(r)
                      /\ changes_file # <<>> =>
                            \A j \in 1..Len(changes_file[1]) :
                                LET q == changes_file[1][j]
                                IN  (q.title = r.title /\ DayOf(q) = DayOf(r)) => q.id = r.id

\* a run repeated later on the same day with the same old and new schema: today's
\* snapshot already held the fetched text, and the records are those of the
\* earlier run with the same ids and another time of discovery
C17_Witness ==
    \E p \in Procs :
        /\ pc[p] = "finish"
        /\ Logged(p, LogDetected)
        /\ features[p] # <<>>
        /\ changes_file # <<>>
        /\ filepath[p] \in DOMAIN start_dir[p]
        /\ start_dir[p][filepath[p]] = current_schema[p][2]
        /\ {features[p][k].id : k \in 1..Len(features[p])}
              = {changes_file[1][j].id : j \in 1..Len(changes_file[1])}
        /\ \A k \in 1..Len(features[p]) : \A j \in 1..Len(changes_file[1]) :
              /\ DayOf(features[p][k]) = DayOf(changes_file[1][j])
              /\ features[p][k].date_discovered # changes_file[1][j].date_discovered

\* how often msg was logged by the run of process p
Count(p, msg) == Cardinality({i \in 1..Len(log[p]) : log[p][i] = msg})

\* the place of the first msg in the log of process p, 0 when it is not there
PlaceOf(p, msg) ==
    IF Logged(p, msg) THEN CHOOSE i \in 1..Len(log[p]) : log[p][i] = msg /\ \A j \in 1..(i - 1) : log[p][j] # msg
    ELSE 0

\* the log of a run shows each step at most once, and a step only after the one before it
StepsInOrder ==
    \A p \in Procs :
        /\ \A msg \in {LogStart, LogRequest, LogSaved, LogComparing, LogDetected} : Count(p, msg) <= 1
        /\ Logged(p, LogSaved) => Logged(p, LogRequest) /\ PlaceOf(p, LogRequest) < PlaceOf(p, LogSaved)
        /\ Logged(p, LogComparing) => Logged(p, LogSaved) /\ PlaceOf(p, LogSaved) < PlaceOf(p, LogComparing)
        /\ Logged(p, LogDetected) =>
              Logged(p, LogComparing) /\ PlaceOf(p, LogComparing) < PlaceOf(p, LogDetected)

\* what each step of a run starts from
StepGuards ==
    \A p \in Procs :
        /\ (pc'[p] = "save" /\ pc[p] # "save") =>
              /\ pc[p] = "fetch"
              /\ current_schema'[p] # None
              /\ current_schema'[p][2] # <<>>
              /\ Count(p, LogRequest) = 0
              /\ LogRequest \in Range(log'[p])
        /\ (pc'[p] = "replace" /\ pc[p] # "replace") => pc[p] = "save"
        /\ dir' # dir => \E q \in Procs : pc[q] \in {"save", "replace"}
        /\ (pc'[p] = "load" /\ pc[p] # "load") =>
              /\ pc[p] = "replace"
              /\ filepath[p] \in DOMAIN dir'
              /\ dir'[filepath[p]] = current_schema[p][2]
        /\ prev_snapshot'[p] # prev_snapshot[p] /\ prev_snapshot'[p] # None => pc[p] = "load"
        /\ (pc'[p] = "diff" /\ pc[p] # "diff") =>
              /\ pc[p] = "load"
              /\ prev_snapshot'[p] # None
        /\ features'[p] # features[p] /\ features'[p] # <<>> =>
              /\ pc[p] = "diff"
              /\ prev_snapshot[p] # None

\* C22 as stated: within one run the steps fetch, save, load, diff happen in
\* this order, each at most once and each only after the one before it
\* succeeded, and every run issues exactly one fetch request.
C22_OrderExactlyOneFetch ==
    /\ [](StepsInOrder /\ \A p \in Procs : Returned(p) => Count(p, LogRequest) = 1)
    /\ [][StepGuards]_vars

\* C22, amended: within one run the steps fetch, save, load, diff happen in
\* this order, each at most once and each only after the one before it
\* succeeded; a run issues at most one fetch request, and exactly one when the
\* source is enabled and a URL is configured (none otherwise).
C22_OrderAtMostOneFetch ==
    /\ [](StepsInOrder /\ \A p \in Procs : Returned(p) =>
              Count(p, LogRequest) = (IF config[p].enabled /\ config[p].has_url THEN 1 ELSE 0))
    /\ [][StepGuards]_vars

\* a run went through all four steps
C22_Witness ==
    \E p \in Procs :
        /\ Returned(p)
        /\ Count(p, LogRequest) = 1
        /\ Logged(p, LogSaved)
        /\ Logged(p, LogComparing)
        /\ Logged(p, LogDetected)
        /\ features[p] # <<>>

(***************************************************************************)
(* Properties of the parser (checked under SpecParse)                      *)
(***************************************************************************)
AllIn(line, a, b, class) == \A k \in a..b : line[k] \in class

\* the word line[b..e] is not continued by another word character
EndsWord(line, e) == e = Len(line) \/ line[e + 1] \notin WordChar

\* line is: optional whitespace, one of the four keywords, whitespace, up to b - 1
KeywordBefore(line, b) ==
    \E kw \in {KwType, KwInterface, KwInput, KwEnum} : \E a \in 1..b :
        /\ StartsWithAt(line, a, kw)
        /\ AllIn(line, 1, a - 1, Space)
        /\ a + Len(kw) < b
        /\ AllIn(line, a + Len(kw), b - 1, Space)

\* the identifiers I of line such that line is: optional whitespace, one of the
\* four keywords, whitespace, I; I an upper-case letter and one or more word
\* characters, not continued by a word character
DeclaredIn(line) ==
    UNION {{SubSeq(line, b, e) : e \in {x \in (b + 1)..Len(line) :
                                            AllIn(line, b, x, WordChar) /\ EndsWord(line, x)}} :
           b \in {y \in 1..Len(line) : line[y] \in Upper /\ KeywordBefore(line, y)}}

DeclaredNames(lines) == UNION {DeclaredIn(lines[k]) : k \in 1..Len(lines)}

\* C12: parse_schema_types returns exactly the identifiers I such that some line
\* is optional whitespace, one of type, interface, input, enum, whitespace, and then
\* I, an upper-case ASCII letter followed by one or more word characters (the whole
\* run of word characters); nothing else is returned.
C12_ExactTypeNames ==
    parsed.types_returned => parsed.types = DeclaredNames(SplitLines(parsed.text))

\* a text that declares one type and names another mid-line, in lower case, with a
\* single letter or without the whitespace: only the declared one is returned
C12_Witness ==
    /\ parsed.types_returned
    /\ Cardinality(parsed.types) = 1
    /\ LET lines == SplitLines(parsed.text)
       IN  /\ Len(lines) = 2
           /\ lines[2] \in {<<"#", " ">> \o KwType \o <<" ", "H", "i", "d", "d", "e", "n">>,
                             <<" ", " ", "a", ":", " ", "B", "e", "t", "a">>,
                             KwType \o <<" ", "l", "o", "w", "e", "r">>,
                             KwType \o <<" ", "A">>,
                             KwType \o <<"G", "a", "m", "m", "a">>}

\* line is: optional whitespace, "type", whitespace, T, optional whitespace, "{"
IsOpening(line, T) ==
    \E a \in 1..Len(line) :
        /\ StartsWithAt(line, a, KwType)
        /\ AllIn(line, 1, a - 1, Space)
        /\ \E b \in (a + Len(KwType) + 1)..Len(line) :
              /\ StartsWithAt(line, b, T)
              /\ AllIn(line, a + Len(KwType), b - 1, Space)
              /\ \E c \in (b + Len(T))..Len(line) :
                    /\ line[c] = "{"
                    /\ AllIn(line, b + Len(T), c - 1, Space)

\* the identifier of line when line is: whitespace, an identifier, then ':' or '('
\* (after optional whitespace when gap is allowed)
FieldIn(line, gap) ==
    UNION {{SubSeq(line, b, e) :
                e \in {x \in b..Len(line) :
                          /\ AllIn(line, b, x, WordChar)
                          /\ \E c \in (x + 1)..Len(line) :
                                /\ line[c] \in {":", "("}
                                /\ AllIn(line, x + 1, c - 1, Space)
                                /\ gap \/ c = x + 1}} :
           b \in {y \in 2..Len(line) : line[y] \in WordChar /\ AllIn(line, 1, y - 1, Space)}}

\* the identifiers of the field-shaped lines among lines from+1 .. to-1
FieldNamesBetween(lines, from, to, gap) ==
    UNION {FieldIn(lines[k], gap) : k \in (from + 1)..(to - 1)}

\* the first line of S, or the line after the last one when S is empty
FirstOf(lines, S) == IF S = {} THEN Len(lines) + 1 ELSE CHOOSE k \in S : \A j \in S : k <= j

Openings(lines, T) == {k \in 1..Len(lines) : IsOpening(lines[k], T)}

\* the first line after line o that contains a closing brace
FirstBrace(lines, o) == FirstOf(lines, {k \in (o + 1)..Len(lines) : "}" \in Range(lines[k])})

\* C13 as stated: capture begins at the first line matching 'type T {', stops at
\* the first later line containing a closing brace, and the result is exactly the
\* identifiers of the captured lines made of leading whitespace and an identifier
\* followed immediately by ':' or '('; with no opening line the result is empty.
C13_FieldsAsStated ==
    parsed.fields_returned =>
        LET lines == SplitLines(parsed.text)
            opens == Openings(lines, parsed.type_name)
            o == FirstOf(lines, opens)
        IN  parsed.fields = IF opens = {} THEN {}
                            ELSE FieldNamesBetween(lines, o, FirstBrace(lines, o), FALSE)

\* C13, amended: capture begins at the first line matching 'type T {', stops at the
\* first later line that contains a closing brace and does not itself match
\* 'type T {', and the result is exactly the identifiers of the captured lines made
\* of leading whitespace and an identifier followed, after optional whitespace, by
\* ':' or '('; with no opening line the result is empty.
C13_FieldsCaptured ==
    parsed.fields_returned =>
        LET lines == SplitLines(parsed.text)
            opens == Openings(lines, parsed.type_name)
            o == FirstOf(lines, opens)
            stop == FirstOf(lines, {k \in (o + 1)..Len(lines) :
                                      "}" \in Range(lines[k]) /\ k \notin opens})
        IN  parsed.fields = IF opens = {} THEN {}
                            ELSE FieldNamesBetween(lines, o, stop, TRUE)

\* a body with an indented field, an unindented one and one with a space before
\* the colon, closed by a brace and followed by another type with a field
C13_Witness ==
    /\ parsed.fields_returned
    /\ parsed.type_name = NameQuery
    /\ parsed.fields = {<<"f", "1">>, <<"f", "4">>}
    /\ Contains(parsed.text, <<"\n", "f", "3", ":">>)
    /\ Contains(parsed.text, <<"g", "1", ":">>)

\* C14: when the first line containing a closing brace after the opening line is
\* the end of a nested argument block, that line ends the capture: a field declared
\* only on later lines is not in the result.
C14_BraceTruncation ==
    parsed.fields_returned =>
        LET lines == SplitLines(parsed.text)
            opens == Openings(lines, parsed.type_name)
            o == FirstOf(lines, opens)
            inner == FirstBrace(lines, o)
        IN  (opens # {} /\ inner \notin opens) =>
                parsed.fields \cap FieldNamesBetween(lines, inner, Len(lines) + 1, TRUE)
                    \subseteq FieldNamesBetween(lines, o, inner, TRUE)

\* a body with a nested argument block: its fields up to the inner closing brace
\* are captured, the field declared between that line and the type's own closing
\* brace is not
C14_Witness ==
    /\ parsed.fields_returned
    /\ parsed.type_name = NameQuery
    /\ <<"f", "5">> \in parsed.fields
    /\ <<"f", "1">> \notin parsed.fields
    /\ LET lines == SplitLines(parsed.text)
           inner == FirstBrace(lines, FirstOf(lines, Openings(lines, NameQuery)))
       IN  /\ inner + 2 <= Len(lines)
           /\ lines[inner] = <<" ", " ", "}", ")", ":", " ", "Y">>
           /\ lines[inner + 1] = <<" ", " ", "f", "1", ":", " ", "X">>
           /\ lines[inner + 2] = <<"}">>

\* the line on which the body opened on line o ends: the first line from o on
\* that contains a closing brace
BodyEnd(lines, o) == FirstOf(lines, {k \in o..Len(lines) : "}" \in Range(lines[k])})

\* C27: every field name returned by parse_schema_fields(text, T) is declared
\* inside the body of type T, that is on a line between a line opening T and the
\* line closing that body, also when both braces of T are on one line.
C27_FieldsOfOwnBody ==
    parsed.fields_returned =>
        LET lines == SplitLines(parsed.text)
            opens == Openings(lines, parsed.type_name)
        IN  \A name \in parsed.fields :
                \E o \in opens : name \in FieldNamesBetween(lines, o, BodyEnd(lines, o), TRUE)

(***************************************************************************)
(* Properties of the content checks (checked under SpecChecks)             *)
(***************************************************************************)
\* the successful checks before the i-th one
EarlierOk(i) == {j \in 1..(i - 1) : checks.results[j].ok}

LastEarlierOk(i) == CHOOSE j \in EarlierOk(i) : \A x \in EarlierOk(i) : x <= j

\* the state file as it was before the i-th check
StoredBefore(i) == IF i = 1 THEN None ELSE checks.stored[i - 1]

\* C20: a successful check reports changed = true exactly when an earlier
\* successful check exists and the most recent one had another fingerprint (the
\* first successful check reports false), and a failed check leaves the stored
\* fingerprint as it was.
C20_ChangedSinceLastSuccess ==
    \A i \in 1..Len(checks.results) :
        LET r == checks.results[i]
            differs == /\ EarlierOk(i) # {}
                       /\ checks.results[LastEarlierOk(i)].fingerprint # r.fingerprint
        IN  /\ r.ok => (r.changed <=> differs)
            /\ (~r.ok) => (checks.stored[i] = StoredBefore(i))


(***************************************************************************)
(* Properties of safe_write_file (checked under SpecCrash and SpecRace)    *)
(***************************************************************************)
\* C23: at every point of safe_write_file, a crash between any two of its steps
\* included, the file at the target path is absent or holds its complete previous
\* content, or holds the complete new content; a call that returned True left the
\* complete new content there.
C23_TargetNeverPartial ==
    LET w == writer[1]
    IN  w.calls > 0 =>
            /\ FileAt(fs, Target) \in {w.prev, <<"str", w.text>>}
            /\ (w.pc = "done" /\ w.ok) => FileAt(fs, Target) = <<"str", w.text>>
            /\ w.pc \in {"open", "write"} => FileAt(fs, Target) = w.prev

\* the writer died with half of the new content in the temporary file, and the
\* target still holds the other content an earlier call wrote
C23_Witness ==
    LET w == writer[1]
    IN  /\ w.pc = "crashed"
        /\ w.prev # None
        /\ w.prev # <<"str", w.text>>
        /\ FileAt(fs, Target) = w.prev
        /\ FileAt(fs, TempName(Target)) = <<"str", Chunks(w.text)[1]>>

\* C24: when two runs save a snapshot for the same date concurrently, both saves
\* succeed and the snapshot stored afterwards is the complete content of one of
\* the two runs, never a mixture.
C24_LastWriteWins ==
    (\A p \in Writers : writer[p].pc = "done" /\ writer[p].calls = 1) =>
        /\ \A p \in Writers : writer[p].ok
        /\ \E p \in Writers : FileAt(fs, Target) = <<"str", writer[p].text>>

(***************************************************************************)
(* Properties of the dashboard delta (checked under SpecDelta)             *)
(***************************************************************************)
\* the ids of the features of a dashboard: those of its dict entries, white space
\* at the ends left aside, the empty one excepted
FeatureIds(dashboard) ==
    {Strip(dashboard.features[i].id) :
        i \in {j \in 1..Len(dashboard.features) :
                  dashboard.features[j].is_dict /\ dashboard.features[j].id # None}} \ {<<>>}

DeltaResult == delta.result[1]

\* C21: when the old dashboard file does not exist, every current feature is
\* reported as added: features_added is the number of features of the new
\* dashboard, features_removed and features_changed are 0, and every item of
\* top_added is one of the current features.
C21_FirstRunAllAdded ==
    (delta.returned /\ ~delta.old.exists) =>
        /\ DeltaResult.counts.features_added = Cardinality(FeatureIds(delta.new))
        /\ DeltaResult.counts.features_removed = 0
        /\ DeltaResult.counts.features_changed = 0
        /\ \A k \in 1..Len(DeltaResult.top_added) :
              \E i \in 1..Len(delta.new.features) :
                  LET item == DeltaResult.top_added[k]
                      entry == delta.new.features[i]
                  IN  /\ entry.is_dict
                      /\ entry.id # None
                      /\ item.id = Strip(entry.id)
                      /\ item.title = Strip(entry.title)

\* a first run over a dashboard of two features, both of them in the sample
C21_Witness ==
    /\ delta.returned
    /\ ~delta.old.exists
    /\ DeltaResult.counts.features_added = 2
    /\ Len(delta.new.features) = 3
    /\ Len(DeltaResult.top_added) = 2

\* C25: for every value of --top that can be a maximum (top_n >= 0), the samples
\* top_added, top_removed and changed each hold at most top_n items.
C25_SamplesWithinTop ==
    (delta.returned /\ delta.top_n >= 0) =>
        /\ Len(DeltaResult.top_added) <= delta.top_n
        /\ Len(DeltaResult.top_removed) <= delta.top_n
        /\ Len(DeltaResult.changed) <= delta.top_n

\* C28: in every delta, features_added - features_removed = total_new - total_old,
\* no id is both added and removed, and every entry of "changed" has an id of both
\* dashboards and at least one differing field.
C28_DeltaConsistent ==
    delta.returned =>
        LET counts == DeltaResult.counts
            added_ids == {delta.added[i].id : i \in 1..Len(delta.added)}
            removed_ids == {delta.removed[i].id : i \in 1..Len(delta.removed)}
        IN  /\ counts.features_added - counts.features_removed = counts.total_new - counts.total_old
            /\ added_ids \cap removed_ids = {}
            /\ \A k \in 1..Len(DeltaResult.changed) :
                  LET entry == DeltaResult.changed[k]
                  IN  /\ entry.id \in FeatureIds(delta.old) \cap FeatureIds(delta.new)
                      /\ DOMAIN entry.fields # {}

\* one feature added, one removed and one whose title changed
C28_Witness ==
    /\ delta.returned
    /\ delta.top_n = 2
    /\ Len(delta.added) = 1
    /\ Len(delta.removed) = 1
    /\ Len(DeltaResult.changed) = 1
    /\ DOMAIN DeltaResult.changed[1].fields = {"title"}

(***************************************************************************)
(* Properties of run_all over several keys                                 *)
(***************************************************************************)
\* the earlier successful checks of the key of result i
EarlierOkOfKey(i) ==
    {j \in 1..(i - 1) : keyed.results[j].key = keyed.results[i].key /\ keyed.results[j].r.ok}

LastEarlierOkOfKey(i) == CHOOSE j \in EarlierOkOfKey(i) : \A x \in EarlierOkOfKey(i) : x <= j

\* C29: checks of different keys do not interfere.  As long as every state
\* file could be read and written, the "changed" of a successful check says
\* whether its fingerprint differs from that of the latest earlier successful
\* check of the same key (and is False when that key has none), whatever was
\* checked for the other keys in between.
C29_KeysDoNotInterfere ==
    keyed.clean =>
        \A i \in 1..Len(keyed.results) :
            LET r == keyed.results[i].r
                differs == /\ EarlierOkOfKey(i) # {}
                           /\ keyed.results[LastEarlierOkOfKey(i)].r.fingerprint # r.fingerprint
            IN  r.ok => (r.changed <=> differs)

(***************************************************************************)
(* Properties of cmd_run_all                                               *)
(***************************************************************************)
\* the steps started so far are the first steps of the command sequence
StartedInOrder ==
    /\ Len(pipeline.started) <= Len(Steps)
    /\ \A i \in 1..Len(pipeline.started) : pipeline.started[i] = Steps[i]

\* every step before step i has returned, and returned success
EarlierSucceeded(i) ==
    \A j \in 1..(i - 1) : j <= Len(pipeline.status) /\ pipeline.status[j] = 0

\* C30: run-all starts the steps in the order ingest, index, embed, evaluate,
\* report, issues, dashboard, notify, and starts no step after one that
\* failed, whether that one raised or returned a failure status.
C30_FixedOrderFailFast ==
    /\ StartedInOrder
    /\ \A i \in 1..Len(pipeline.started) : EarlierSucceeded(i)
    /\ pipeline.raised => pipeline.pc = "raised" /\ Len(pipeline.started) <= Len(pipeline.status) + 1
====
